---- MODULE Spec2Model ----
(***************************************************************************)
(* Model of the NirvanaTraffic worker: the job orchestrator (worker.js,    *)
(* modular edition: poll / processJob), the journeys' run() skeleton       *)
(* (squidoosh, organic) and the session lifecycle of the shared    *)
(* library (setupBrowserSession / cleanup).                                *)
(*                                                                         *)
(* External collaborators are nondeterministic: the Supabase queries       *)
(* (answer, error object), the GoLogin API (profile creation, launch),     *)
(* the browser (navigation, selectors) and the CAPTCHA state machine's     *)
(* verdict at each checkpoint.                                             *)
(***************************************************************************)
EXTENDS Integers, Sequences, FiniteSets, TLC

\* ---------------------------------------------------------------- bounds
MaxJobs == 2
MaxPolls == 2
MaxPages == 2
\* links on a results page
MaxLinks == 3
\* steps a run logs
MaxSteps == 3
\* raced humanScroll calls of a super-rocket run
MaxScrolls == 2
\* characters of a typed keyword
MaxText == 5
\* the largest gridSize of a job
MaxGrid == 5

\* ------------------------------------------------------ program constants
MAX_CONCURRENT == 1
MAX_ATTEMPTS == 5
\* handleCaptcha(page, context, proxyConfig, log, maxAttempts = 3)
maxAttempts == 3
\* solveRecaptcha: for (let i = 0; i < 24; i++) { sleep 5000 ms; poll }
SOLVE_POLLS == 24

JobIds == 1..MaxJobs
\* executions of processJob followed by the model: one more than the
\* concurrency limit, so that an over-subscription can show
MaxExecs == MAX_CONCURRENT + 1
ExecIds == 1..MaxExecs

VARIABLES
  params,      \* job row: params column (journey type, parameters)
  jobStatus,   \* job row: status column
  jobError,    \* job row: error column
  activeJobs,  \* the in-process counter
  pollsStarted, \* number of poll cycles the timer has started
  fetching,    \* poll cycles awaiting the answer of their query, by limit
  nextExec,    \* number of processJob executions started so far
  execJob,     \* the job an execution of processJob works on
  pc,          \* position of each execution of processJob
  attempt,     \* loop variable of the retry loop
  page,        \* organic journey: currentPage
  session,     \* run(): the session variable (0 = undefined), a profile id
  result,      \* processJob: the result variable
  writes,      \* status values this execution sent to the jobs table
  profiles,    \* GoLogin side: the profiles each execution has created
  \* one call of handleCaptcha (shared library), followed step by step
  hcPc,        \* position in handleCaptcha
  hcAttempt,   \* its loop variable attempt
  hcPage,      \* the page: kind of its URL, the widget's data-sitekey, the cycle that loaded it
  captchaInfo, \* the parameters the last page.evaluate extracted
  hcLog,       \* the actions passed to log()
  submissions, \* the calls of solveRecaptcha: cycle, and the page load its parameters are from
  responses,   \* solveRecaptcha: the getTaskResult answers of the current task
  solveEnd,    \* solveRecaptcha: how the last call ended
  hcResult,    \* what handleCaptcha returned
  \* one call of a journey's run(), followed from page to page
  navPc,       \* position in run()
  runParams,   \* job.params
  currentPage, \* organic run(): the loop variable currentPage
  challenged,  \* whether the page the browser is on is a challenge page
  trail,       \* page loads, CAPTCHA checks and scans, in the order they happened
  runResult,   \* what run() returned
  \* one call of scoreMatch(text, href, targetBusiness, targetUrl)
  text, href, targetBusiness, targetUrl,
  score,       \* what it returned (-1: not called yet)
  \* one results page scanned by a journey, and the end of its processJob
  scanPc,      \* position in run() / scanOrganicResults / processJob
  scanJourney, \* the journey that scans
  target,      \* params.targetBusiness, params.targetUrl
  lists,       \* the links the locators of the page match, in page order
  results,     \* scanOrganicResults: the results array
  scanIdx,     \* the loop variable i of the scan loop
  scanned,     \* the links scored so far: strategy, position, score, clicked or not
  found,       \* run(): found
  clickedRank, \* run(): clickedRank
  steps,       \* createLogger: the steps array (the action of each step)
  scanResult,  \* what run() returned
  rowStatus,   \* jobs table: the status column of the job's row
  sink,        \* execution_logs table: the rows inserted for the job
  logIdx,      \* processJob: the loop variable i of the log loop
  \* one run() of the super-rocket journey, from its first scroll on
  rkPc,        \* position of run()
  rkRace,      \* the number of the Promise.race run() awaits or awaited last
  isMobile,    \* run(): isMobile
  scrolls,     \* the humanScroll calls, by number: where each one is
  pageLog,     \* page actions the humanScroll calls issued, and what run() was at
  \* one processJob with a journey module, followed from the entry of run()
  enPc,        \* position in run() / processJob
  enJourney,   \* the journey module
  enParams,    \* job.params
  enSession,   \* run(): the session variable (0 = undefined)
  enCalls,     \* the session calls issued: setupBrowserSession, cleanup
  enResult,    \* processJob: the result variable
  enAttempt,   \* processJob: the loop variable attempt
  enRow,       \* jobs table: the status column of the job's row
  \* one call of cleanup(browser, glApi, profileId)
  cuPc,        \* position in cleanup
  cuArgs,      \* its arguments: which of them are set
  cuCalls,     \* the calls it made and how each one settled
  cuCaller,    \* the finally block that awaits it: with .catch(() => {}) or without
  \* one call of humanType(page, text, log)
  tyPc,        \* position in humanType
  tyLib,       \* which copy of the shared library is followed
  tyText,      \* text
  tyIdx,       \* the loop variable i
  tyKeys,      \* the keys sent to page.keyboard, in order
  tyField,     \* the content of the focused input
  \* one call of humanMouseMove(page, targetX, targetY)
  mmPc,        \* position in humanMouseMove
  mmArgs,      \* startX, startY, targetX, targetY
  mmSteps,     \* steps
  mmI,         \* the loop variable i
  mmEvents,    \* the page.mouse.move and page.waitForTimeout calls, in order
  \* one call of generateGrid, and the grid point run() picks
  gdPc,        \* position in generateGrid / run()
  gdSize,      \* gridSize
  gdRow,       \* the loop variable row
  gdCol,       \* the loop variable col
  gdPoints,    \* points
  gdPoint      \* run(): gridPoint

orchVars == <<params, jobStatus, jobError, activeJobs, pollsStarted, fetching, nextExec,
              execJob, pc, attempt, page, session, result, writes, profiles>>
hcVars == <<hcPc, hcAttempt, hcPage, captchaInfo, hcLog, submissions, responses,
            solveEnd, hcResult>>
navVars == <<navPc, runParams, currentPage, challenged, trail, runResult>>
smVars == <<text, href, targetBusiness, targetUrl, score>>
scanVars == <<scanPc, scanJourney, target, lists, results, scanIdx, scanned, found,
              clickedRank, steps, scanResult, rowStatus, sink, logIdx>>
rocketVars == <<rkPc, rkRace, isMobile, scrolls, pageLog>>
entryVars == <<enPc, enJourney, enParams, enSession, enCalls, enResult, enAttempt, enRow>>
cuVars == <<cuPc, cuArgs, cuCalls, cuCaller>>
typeVars == <<tyPc, tyLib, tyText, tyIdx, tyKeys, tyField>>
mouseVars == <<mmPc, mmArgs, mmSteps, mmI, mmEvents>>
gridVars == <<gdPc, gdSize, gdRow, gdCol, gdPoints, gdPoint>>
extVars == <<entryVars, cuVars, typeVars, mouseVars, gridVars>>
libVars == <<hcVars, navVars, smVars, scanVars, rocketVars, extVars>>
vars == <<orchVars, libVars>>

\* ------------------------------------------------------------ job params
\* journeyType selects the journey; maxPages is the organic journey's page
\* budget (params.maxPages). priority is a parameter the queue's producer
\* sets; no line of the worker reads it.
JobParams ==
  { [journeyType |-> "squidoosh", maxPages |-> 1, priority |-> 1],
    [journeyType |-> "organic", maxPages |-> MaxPages, priority |-> 5] }

\* ------------------------------------------------------- journey results
NoResult == [success |-> FALSE, found |-> FALSE, captcha |-> FALSE, error |-> "unset"]

\* catch block of run(): { success: false, found: false, steps, error }
ErrorResult(err) ==
  [success |-> FALSE, found |-> FALSE, captcha |-> FALSE, error |-> err]

\* organic run(): { success: false, found: false, captcha: true, steps, error }
CaptchaResult ==
  [success |-> FALSE, found |-> FALSE, captcha |-> TRUE, error |-> "CAPTCHA during pagination"]

\* { success: true, found, clickedRank, steps, duration_ms }
SuccessResult(fnd) ==
  [success |-> TRUE, found |-> fnd, captcha |-> FALSE, error |-> "none"]

\* ------------------------------------------------------ CAPTCHA verdicts
\* handleCaptcha returns true (no challenge, or solved) or false (no
\* solvable widget, or attempt budget exhausted).
HandleCaptchaOutcomes == {"clear", "bypassed", "ip_blocked", "exhausted"}
CaptchaOk(o) == o \in {"clear", "bypassed"}

TypeOK ==
  /\ params \in [JobIds -> JobParams]
  /\ jobStatus \in [JobIds -> {"queued", "running", "completed", "failed"}]
  /\ activeJobs \in Int
  /\ pollsStarted \in 0..MaxPolls
  /\ fetching \in [1..MAX_CONCURRENT -> 0..MaxPolls]
  /\ nextExec \in 0..MaxExecs
  /\ pc \in [ExecIds -> {"idle", "setRunning", "setup", "search", "scan", "cleanup",
                         "save", "logs", "done", "crashed", "hung"}]
  /\ attempt \in [ExecIds -> 0..(MAX_ATTEMPTS + 1)]
  /\ \A e \in ExecIds : session[e] \in 0..Len(profiles[e])

\* the page handleCaptcha is called on has not been loaded by any of its cycles
NoPage == [url |-> "results", siteKey |-> FALSE, loadedIn |-> 0]
NoInfo == [siteKey |-> FALSE, from |-> -1]

\* handleCaptcha is not being followed
HcIdle ==
  /\ hcPc = "idle"
  /\ hcAttempt = 0
  /\ hcPage = NoPage
  /\ captchaInfo = NoInfo
  /\ hcLog = <<>>
  /\ submissions = <<>>
  /\ responses = <<>>
  /\ solveEnd = "none"
  /\ hcResult = "none"

\* run() is not being followed
NavIdle ==
  /\ navPc = "idle"
  /\ runParams = [journeyType |-> "squidoosh", maxPages |-> 0]
  /\ currentPage = 0
  /\ challenged = FALSE
  /\ trail = <<>>
  /\ runResult = "none"

\* scoreMatch is not being followed
ScoreIdle ==
  /\ text = <<>>
  /\ href = <<>>
  /\ targetBusiness = <<>>
  /\ targetUrl = <<>>
  /\ score = -1

NoScanResult == [success |-> FALSE, found |-> FALSE, clickedRank |-> -1, error |-> "unset"]

\* the scan is not being followed
ScanIdle ==
  /\ scanPc = "idle"
  /\ scanJourney = "squidoosh"
  /\ target = [targetBusiness |-> <<>>, targetUrl |-> <<>>]
  /\ lists = [mapsPack |-> <<>>, h3s |-> <<>>, allLinks |-> <<>>]
  /\ results = <<>>
  /\ scanIdx = 0
  /\ scanned = <<>>
  /\ found = FALSE
  /\ clickedRank = 0
  /\ steps = <<>>
  /\ scanResult = NoScanResult
  /\ rowStatus = "queued"
  /\ sink = <<>>
  /\ logIdx = 0

\* the super-rocket run() is not being followed
RocketIdle ==
  /\ rkPc = "idle"
  /\ rkRace = 0
  /\ isMobile = FALSE
  /\ scrolls = [k \in 1..MaxScrolls |-> "uncalled"]
  /\ pageLog = {}

\* no processJob is followed from the entry of run()
NoEntryResult == [keys |-> {}, success |-> FALSE, captcha |-> FALSE, error |-> "unset"]
NoParams ==
  [keyword |-> "", business_name |-> "", latitude |-> 0, longitude |-> 0,
   tier1_url |-> "", image_base64 |-> "", cid |-> ""]
EntryIdle ==
  /\ enPc = "idle"
  /\ enJourney = "squidoosh"
  /\ enParams = NoParams
  /\ enSession = 0
  /\ enCalls = <<>>
  /\ enResult = NoEntryResult
  /\ enAttempt = 0
  /\ enRow = "queued"

\* no cleanup call is followed
CleanupIdle ==
  /\ cuPc = "idle"
  /\ cuArgs = [browser |-> FALSE, glApi |-> FALSE, profileId |-> 0]
  /\ cuCalls = <<>>
  /\ cuCaller = "plain"

\* no humanType call is followed
TypeIdle ==
  /\ tyPc = "idle"
  /\ tyLib = "current"
  /\ tyText = <<>>
  /\ tyIdx = 0
  /\ tyKeys = <<>>
  /\ tyField = <<>>

\* no humanMouseMove call is followed
MouseIdle ==
  /\ mmPc = "idle"
  /\ mmArgs = [sx |-> 0, sy |-> 0, tx |-> 0, ty |-> 0]
  /\ mmSteps = 0
  /\ mmI = 0
  /\ mmEvents = <<>>

\* no generateGrid call is followed
NoPoint == [row |-> -1, col |-> -1, dRow |-> 0, dCol |-> 0]
GridIdle ==
  /\ gdPc = "idle"
  /\ gdSize = 0
  /\ gdRow = 0
  /\ gdCol = 0
  /\ gdPoints = <<>>
  /\ gdPoint = NoPoint

ExtIdle == EntryIdle /\ CleanupIdle /\ TypeIdle /\ MouseIdle /\ GridIdle

LibIdle == HcIdle /\ NavIdle /\ ScoreIdle /\ ScanIdle /\ RocketIdle /\ ExtIdle

OrchInit ==
  /\ params \in [JobIds -> JobParams]
  /\ jobStatus = [j \in JobIds |-> "queued"]
  /\ jobError = [j \in JobIds |-> "none"]
  /\ activeJobs = 0
  /\ pollsStarted = 0
  /\ fetching = [l \in 1..MAX_CONCURRENT |-> 0]
  /\ nextExec = 0
  /\ execJob = [e \in ExecIds |-> 0]
  /\ pc = [e \in ExecIds |-> "idle"]
  /\ attempt = [e \in ExecIds |-> 0]
  /\ page = [e \in ExecIds |-> 0]
  /\ session = [e \in ExecIds |-> 0]
  /\ result = [e \in ExecIds |-> NoResult]
  /\ writes = [e \in ExecIds |-> <<>>]
  /\ profiles = [e \in ExecIds |-> <<>>]

Init == OrchInit /\ LibIdle

\* ------------------------------------------------------------- poll loop
\* .eq("status", "queued").order("created_at", ascending).limit(n):
\* job ids are in creation order.
QueuedJobs == {j \in JobIds : jobStatus[j] = "queued"}
\* a plausible defect: the order is descending, the newest jobs come first
FetchedNewestFirst(n) == {j \in QueuedJobs : Cardinality({k \in QueuedJobs : k > j}) < n}
Fetched(n) == {j \in QueuedJobs : Cardinality({k \in QueuedJobs : k < j}) < n}
RankIn(S, j) == Cardinality({k \in S : k <= j})

\* the values .limit() can be called with
Limits == 1..MAX_CONCURRENT

\* setInterval(poll, POLL_INTERVAL); poll(): the timer starts cycle after
\* cycle, whether or not the earlier ones have returned.
\* if (activeJobs >= MAX_CONCURRENT) return;
PollSkip ==
  /\ pollsStarted < MaxPolls
  /\ activeJobs >= MAX_CONCURRENT
  /\ pollsStarted' = pollsStarted + 1
  /\ UNCHANGED <<libVars, params, jobStatus, jobError, activeJobs, fetching, nextExec,
                 execJob, pc, attempt, page, session, result, writes, profiles>>

\* the limit argument of the query: MAX_CONCURRENT - activeJobs
PollLimit == MAX_CONCURRENT - activeJobs

\* the select is sent with .limit(MAX_CONCURRENT - activeJobs) and awaited
PollQuery ==
  /\ pollsStarted < MaxPolls
  /\ activeJobs < MAX_CONCURRENT
  /\ pollsStarted' = pollsStarted + 1
  /\ fetching' = [fetching EXCEPT ![PollLimit] = @ + 1]
  /\ UNCHANGED <<libVars, params, jobStatus, jobError, activeJobs, nextExec,
                 execJob, pc, attempt, page, session, result, writes, profiles>>

\* if (error) { console.error(...); return; }
PollError(l) ==
  /\ fetching[l] > 0
  /\ fetching' = [fetching EXCEPT ![l] = @ - 1]
  /\ UNCHANGED <<libVars, params, jobStatus, jobError, activeJobs, pollsStarted, nextExec,
                 execJob, pc, attempt, page, session, result, writes, profiles>>

\* for (const job of jobs) { activeJobs++; processJob(job).catch(..).finally(..) }
\* processJob runs synchronously up to its first await (the running update).
\* An empty answer returns without starting a job.
PollStartJobs(l) ==
  /\ fetching[l] > 0
  /\ LET jobs == Fetched(l)
         n == Cardinality(jobs)
     IN /\ nextExec + n <= MaxExecs
        /\ fetching' = [fetching EXCEPT ![l] = @ - 1]
        /\ activeJobs' = activeJobs + n
        /\ nextExec' = nextExec + n
        /\ execJob' = [e \in ExecIds |->
                         IF e > nextExec /\ e <= nextExec + n
                         THEN CHOOSE j \in jobs : RankIn(jobs, j) = e - nextExec
                         ELSE execJob[e]]
        /\ pc' = [e \in ExecIds |->
                    IF e > nextExec /\ e <= nextExec + n THEN "setRunning" ELSE pc[e]]
  /\ UNCHANGED <<libVars, params, jobStatus, jobError, pollsStarted,
                 attempt, page, session, result, writes, profiles>>

\* ------------------------------------------------------------ processJob
\* An awaited Supabase request has three outcomes: it is applied ("ok"); it
\* fails and the failure comes back in the returned object, which processJob
\* does not read ("error"); or the await rejects ("throws", in its own
\* action). A failed request leaves the row as it is.
WriteOutcomes == {"ok", "error"}

\* a plausible defect: the slot is released in .catch and again in .finally
ReleaseSlotTwice == activeJobs - 2

\* what the .finally of poll does once processJob has settled
ReleaseSlot == activeJobs - 1

IsLive(p) == p.teardowns = 0

\* processJob settles (to is "done" or "crashed"): its locals are gone;
\* .catch(..) logs a rejection, .finally(() => activeJobs--).
\* Of the profiles of a settled execution only those that still exist on
\* the GoLogin side are kept.
Settle(e, to) ==
  /\ pc' = [pc EXCEPT ![e] = to]
  /\ attempt' = [attempt EXCEPT ![e] = 0]
  /\ result' = [result EXCEPT ![e] = NoResult]
  /\ profiles' = [profiles EXCEPT ![e] = SelectSeq(@, IsLive)]
  /\ activeJobs' = ReleaseSlot

\* await supabase.from("jobs").update({ status: "running", ... })
SetRunning(e) ==
  /\ pc[e] = "setRunning"
  /\ \E w \in WriteOutcomes :
       jobStatus' = IF w = "ok" THEN [jobStatus EXCEPT ![execJob[e]] = "running"]
                    ELSE jobStatus
  /\ writes' = [writes EXCEPT ![e] = Append(@, "running")]
  /\ attempt' = [attempt EXCEPT ![e] = 1]
  /\ pc' = [pc EXCEPT ![e] = "setup"]
  /\ UNCHANGED <<libVars, params, jobError, activeJobs, pollsStarted, fetching, nextExec,
                 execJob, page, session, result, profiles>>

\* the await of the running update rejects
SetRunningThrows(e) ==
  /\ pc[e] = "setRunning"
  /\ writes' = [writes EXCEPT ![e] = Append(@, "running")]
  /\ Settle(e, "crashed")
  /\ UNCHANGED <<libVars, params, jobStatus, jobError, pollsStarted, fetching, nextExec,
                 execJob, page, session>>

\* a plausible defect: the loop retries after every failed attempt, not
\* only after a CAPTCHA failure
RetryOnAnyFailure(r, a) ==
  IF r.success THEN [pc |-> "save", attempt |-> a]
  ELSE IF a + 1 <= MAX_ATTEMPTS THEN [pc |-> "setup", attempt |-> a + 1]
  ELSE [pc |-> "save", attempt |-> a + 1]

\* the retry loop after journey.run(job) returned r in attempt a:
\*   for (let attempt = 1; attempt <= 5; attempt++) {
\*     result = await journey.run(job); if (!result.captcha) break; await sleep }
LoopAfterRun(r, a) ==
  IF ~r.captcha THEN [pc |-> "save", attempt |-> a]
  ELSE IF a + 1 <= MAX_ATTEMPTS THEN [pc |-> "setup", attempt |-> a + 1]
  ELSE [pc |-> "save", attempt |-> a + 1]

\* run() returns r to processJob; the locals of run() are gone
ReturnToLoop(e, r) ==
  /\ result' = [result EXCEPT ![e] = r]
  /\ page' = [page EXCEPT ![e] = 0]
  /\ pc' = [pc EXCEPT ![e] = LoopAfterRun(r, attempt[e]).pc]
  /\ attempt' = [attempt EXCEPT ![e] = LoopAfterRun(r, attempt[e]).attempt]

\* ------------------------------------------------ journeys and sessions
Prm(e) == params[execJob[e]]

\* the registry: an unknown journey type falls back to squidoosh
JOURNEYS == {"squidoosh", "organic"}
getJourney(prm) == IF prm.journeyType \in JOURNEYS THEN prm.journeyType ELSE "squidoosh"

\* createGoLoginProfile: POST /browser creates a profile and the server
\* issues its id. Ids are unique over all requests: profile i of execution e
\* has the id <<e, i>>. A profile records the attempt of the retry loop that
\* created it, the attempts that used it as their session and the teardown
\* calls (cleanup -> deleteGoLoginProfile) issued for it.
NewProfileId(e) == Len(profiles[e]) + 1

\* a plausible defect: the profile id of the previous attempt is kept and
\* used again instead of creating a profile
ReuseProfile(e) ==
  IF Len(profiles[e]) = 0
  THEN [id |-> 1,
        table |-> [profiles EXCEPT ![e] =
                     <<[attempt |-> attempt[e], usedBy |-> {attempt[e]}, teardowns |-> 0]>>]]
  ELSE [id |-> Len(profiles[e]),
        table |-> [profiles EXCEPT ![e][Len(profiles[e])].usedBy = @ \cup {attempt[e]}]]

\* const profileId = await createGoLoginProfile(mobile, proxyConfig):
\* every call of setupBrowserSession creates a profile of its own
CreateProfile(e) ==
  [id |-> NewProfileId(e),
   table |-> [profiles EXCEPT ![e] =
                Append(@, [attempt |-> attempt[e], usedBy |-> {attempt[e]}, teardowns |-> 0])]]

\* setupBrowserSession: createGoLoginProfile throws; run()'s catch builds the
\* error result, session is undefined in finally
SetupCreateFails(e) ==
  /\ pc[e] = "setup"
  /\ ReturnToLoop(e, ErrorResult("error"))
  /\ UNCHANGED <<libVars, params, jobStatus, jobError, activeJobs, pollsStarted, fetching, nextExec,
                 execJob, session, writes, profiles>>

\* setupBrowserSession: the POST of createGoLoginProfile has no timeout and
\* is never answered
SetupHangs(e) ==
  /\ pc[e] = "setup"
  /\ pc' = [pc EXCEPT ![e] = "hung"]
  /\ UNCHANGED <<libVars, params, jobStatus, jobError, activeJobs, pollsStarted, fetching, nextExec,
                 execJob, attempt, page, session, result, writes, profiles>>

\* what setupBrowserSession throws after the profile exists
\* (err.message of a launch or navigation failure is written "error")
SetupErrors == {"error", "CAPTCHA on Google landing page - blocked"}

\* setupBrowserSession throws after createGoLoginProfile returned: launch,
\* page.goto, or handleCaptcha returning false on the landing page. The
\* assignment session = await setupBrowserSession(..) never happens.
SetupFailsAfterCreate(e) ==
  /\ pc[e] = "setup"
  /\ \E err \in SetupErrors :
       /\ err = "CAPTCHA on Google landing page - blocked"
            => \E o \in HandleCaptchaOutcomes : ~CaptchaOk(o)
       /\ ReturnToLoop(e, ErrorResult(err))
  /\ profiles' = CreateProfile(e).table
  /\ UNCHANGED <<libVars, params, jobStatus, jobError, activeJobs, pollsStarted, fetching, nextExec,
                 execJob, session, writes>>

\* setupBrowserSession returns { page, context, browser, glApi, profileId, .. }
SetupOk(e) ==
  /\ pc[e] = "setup"
  /\ \E o \in HandleCaptchaOutcomes : CaptchaOk(o)
  /\ profiles' = CreateProfile(e).table
  /\ session' = [session EXCEPT ![e] = CreateProfile(e).id]
  /\ page' = [page EXCEPT ![e] = 1]
  /\ pc' = [pc EXCEPT ![e] = "search"]
  /\ UNCHANGED <<libVars, params, jobStatus, jobError, activeJobs, pollsStarted, fetching, nextExec,
                 execJob, attempt, result, writes>>

\* searchGoogle: results rendered, possibly after handleCaptcha returned true
SearchOk(e) ==
  /\ pc[e] = "search"
  /\ pc' = [pc EXCEPT ![e] = "scan"]
  /\ UNCHANGED <<libVars, params, jobStatus, jobError, activeJobs, pollsStarted, fetching, nextExec,
                 execJob, attempt, page, session, result, writes, profiles>>

SearchErrors == {"error", "CAPTCHA after search - blocked"}

\* searchGoogle throws (selector timeout, or handleCaptcha returned false);
\* run()'s catch builds the error result, finally runs next
SearchFails(e) ==
  /\ pc[e] = "search"
  /\ \E err \in SearchErrors :
       /\ err = "CAPTCHA after search - blocked"
            => \E o \in HandleCaptchaOutcomes : ~CaptchaOk(o)
       /\ result' = [result EXCEPT ![e] = ErrorResult(err)]
  /\ pc' = [pc EXCEPT ![e] = "cleanup"]
  /\ UNCHANGED <<libVars, params, jobStatus, jobError, activeJobs, pollsStarted, fetching, nextExec,
                 execJob, attempt, page, session, writes, profiles>>

\* the scan of the current page clicks a target, dwell follows, run() returns
ScanFound(e) ==
  /\ pc[e] = "scan"
  /\ result' = [result EXCEPT ![e] = SuccessResult(TRUE)]
  /\ pc' = [pc EXCEPT ![e] = "cleanup"]
  /\ UNCHANGED <<libVars, params, jobStatus, jobError, activeJobs, pollsStarted, fetching, nextExec,
                 execJob, attempt, page, session, writes, profiles>>

\* an await of the scan throws; run()'s catch builds the error result
ScanThrows(e) ==
  /\ pc[e] = "scan"
  /\ result' = [result EXCEPT ![e] = ErrorResult("error")]
  /\ pc' = [pc EXCEPT ![e] = "cleanup"]
  /\ UNCHANGED <<libVars, params, jobStatus, jobError, activeJobs, pollsStarted, fetching, nextExec,
                 execJob, attempt, page, session, writes, profiles>>

IsLastPage(e) ==
  getJourney(Prm(e)) # "organic" \/ page[e] >= Prm(e).maxPages

\* no candidate matched: squidoosh returns at once; organic returns
\* after the last page or when goToNextPage could not navigate
ScanNotFound(e) ==
  /\ pc[e] = "scan"
  /\ \/ IsLastPage(e)
     \/ \E o \in HandleCaptchaOutcomes : CaptchaOk(o)
  /\ result' = [result EXCEPT ![e] = SuccessResult(FALSE)]
  /\ pc' = [pc EXCEPT ![e] = "cleanup"]
  /\ UNCHANGED <<libVars, params, jobStatus, jobError, activeJobs, pollsStarted, fetching, nextExec,
                 execJob, attempt, page, session, writes, profiles>>

\* organic run(): handleCaptcha before pagination returned false
OrganicCaptchaFails(e) ==
  /\ pc[e] = "scan"
  /\ ~IsLastPage(e)
  /\ \E o \in HandleCaptchaOutcomes : ~CaptchaOk(o)
  /\ result' = [result EXCEPT ![e] = CaptchaResult]
  /\ pc' = [pc EXCEPT ![e] = "cleanup"]
  /\ UNCHANGED <<libVars, params, jobStatus, jobError, activeJobs, pollsStarted, fetching, nextExec,
                 execJob, attempt, page, session, writes, profiles>>

\* organic run(): handleCaptcha returned true and goToNextPage navigated
OrganicNextPage(e) ==
  /\ pc[e] = "scan"
  /\ ~IsLastPage(e)
  /\ \E o \in HandleCaptchaOutcomes : CaptchaOk(o)
  /\ page' = [page EXCEPT ![e] = @ + 1]
  /\ UNCHANGED <<libVars, params, jobStatus, jobError, activeJobs, pollsStarted, fetching, nextExec,
                 execJob, pc, attempt, session, result, writes, profiles>>

\* finally { if (session) await cleanup(session.browser, session.glApi, session.profileId) }
\* then run() returns its result to the retry loop
Cleanup(e) ==
  /\ pc[e] = "cleanup"
  /\ session[e] # 0
  /\ profiles' = [profiles EXCEPT ![e][session[e]].teardowns = @ + 1]
  /\ session' = [session EXCEPT ![e] = 0]
  /\ ReturnToLoop(e, result[e])
  /\ UNCHANGED <<libVars, params, jobStatus, jobError, activeJobs, pollsStarted, fetching, nextExec,
                 execJob, writes>>

\* a plausible defect: a job whose last attempt was flagged is put back into
\* the queue instead of being failed
StatusRequeueFlagged(r) ==
  IF r.success THEN "completed" ELSE IF r.captcha THEN "queued" ELSE "failed"

\* await supabase.from("jobs").update({ status: result.success ? "completed" : "failed",
\*                                      result, error: result.error || null })
StatusOf(r) == IF r.success THEN "completed" ELSE "failed"

\* a plausible defect: the update also writes the params column, from what
\* the journey worked with (its defaults where it read no parameter)
ParamsFromJourney(e) ==
  [journeyType |-> getJourney(Prm(e)), maxPages |-> IF page[e] > 0 THEN page[e] ELSE 1,
   priority |-> 1]

\* the params column of the row after the result update: the update names
\* the columns status, completed_at, result and error, and result is the
\* journey's object as returned; params is not among the columns
ParamsAfterSave(e) == Prm(e)

Save(e) ==
  /\ pc[e] = "save"
  /\ \E w \in WriteOutcomes :
       /\ jobStatus' = IF w = "ok" THEN [jobStatus EXCEPT ![execJob[e]] = StatusOf(result[e])]
                       ELSE jobStatus
       /\ jobError' = IF w = "ok" THEN [jobError EXCEPT ![execJob[e]] = result[e].error]
                      ELSE jobError
       /\ params' = IF w = "ok" THEN [params EXCEPT ![execJob[e]] = ParamsAfterSave(e)]
                    ELSE params
  /\ writes' = [writes EXCEPT ![e] = Append(@, StatusOf(result[e]))]
  /\ pc' = [pc EXCEPT ![e] = "logs"]
  /\ UNCHANGED <<libVars, activeJobs, pollsStarted, fetching, nextExec,
                 execJob, attempt, page, session, result, profiles>>

\* the await of the result update rejects
SaveThrows(e) ==
  /\ pc[e] = "save"
  /\ writes' = [writes EXCEPT ![e] = Append(@, StatusOf(result[e]))]
  /\ Settle(e, "crashed")
  /\ UNCHANGED <<libVars, params, jobStatus, jobError, pollsStarted, fetching, nextExec,
                 execJob, page, session>>

\* the log loop ran to its end, processJob resolved; .finally(() => activeJobs--)
LogsDone(e) ==
  /\ pc[e] = "logs"
  /\ Settle(e, "done")
  /\ UNCHANGED <<libVars, params, jobStatus, jobError, pollsStarted, fetching, nextExec,
                 execJob, page, session, writes>>

\* the await of an execution_logs insert rejects
LogsThrow(e) ==
  /\ pc[e] = "logs"
  /\ Settle(e, "crashed")
  /\ UNCHANGED <<libVars, params, jobStatus, jobError, pollsStarted, fetching, nextExec,
                 execJob, page, session, writes>>

Next ==
  \/ PollSkip
  \/ PollQuery
  \/ \E l \in Limits : PollError(l)
  \/ \E l \in Limits : PollStartJobs(l)
  \/ \E e \in ExecIds : SetRunning(e)
  \/ \E e \in ExecIds : SetRunningThrows(e)
  \/ \E e \in ExecIds : SetupCreateFails(e)
  \/ \E e \in ExecIds : SetupHangs(e)
  \/ \E e \in ExecIds : SetupFailsAfterCreate(e)
  \/ \E e \in ExecIds : SetupOk(e)
  \/ \E e \in ExecIds : SearchOk(e)
  \/ \E e \in ExecIds : SearchFails(e)
  \/ \E e \in ExecIds : ScanFound(e)
  \/ \E e \in ExecIds : ScanThrows(e)
  \/ \E e \in ExecIds : ScanNotFound(e)
  \/ \E e \in ExecIds : OrganicCaptchaFails(e)
  \/ \E e \in ExecIds : OrganicNextPage(e)
  \/ \E e \in ExecIds : Cleanup(e)
  \/ \E e \in ExecIds : Save(e)
  \/ \E e \in ExecIds : SaveThrows(e)
  \/ \E e \in ExecIds : LogsDone(e)
  \/ \E e \in ExecIds : LogsThrow(e)

Spec == Init /\ [][Next]_vars

\* what the code's scheduling guarantees: an execution whose awaited call
\* is answered goes on, and a poll query is answered
ExecStep(e) ==
  \/ SetRunning(e) \/ SetRunningThrows(e)
  \/ SetupCreateFails(e) \/ SetupFailsAfterCreate(e) \/ SetupOk(e)
  \/ SearchOk(e) \/ SearchFails(e)
  \/ ScanFound(e) \/ ScanThrows(e) \/ ScanNotFound(e)
  \/ OrganicCaptchaFails(e) \/ OrganicNextPage(e)
  \/ Cleanup(e) \/ Save(e) \/ SaveThrows(e) \/ LogsDone(e) \/ LogsThrow(e)

FairSpec ==
  /\ Spec
  /\ \A e \in ExecIds : WF_vars(ExecStep(e))
  /\ \A l \in Limits : WF_vars(PollError(l) \/ PollStartJobs(l))

\* ================================================= handleCaptcha (shared)
\* One call of handleCaptcha, with the solveRecaptcha calls it makes. The
\* browser and the solving service are nondeterministic: what a navigation
\* ends on, whether the widget carries a data-sitekey, what getTaskResult
\* answers, and whether an awaited call throws.

\* the orchestrator is at rest while the library is followed
OrchParked == OrchInit /\ \A j \in JobIds : params[j].journeyType = "squidoosh"

\* kinds of page URL: a /sorry/ URL, another URL with "captcha" in it, or neither
UrlKinds == {"results", "sorry", "captcha"}
\* page.url().includes("/sorry/") || page.url().includes("captcha")
IsChallengeUrl(u) == u \in {"sorry", "captcha"}
\* page.url().includes("/sorry/")
IsSorryUrl(u) == u = "sorry"

\* the pages a load in cycle a (0: before the call) can end on
PagesLoadedIn(a) ==
  {pg \in {[url |-> u, siteKey |-> k, loadedIn |-> a] : u \in UrlKinds, k \in BOOLEAN} :
     IsChallengeUrl(pg.url) \/ ~pg.siteKey}

HcInit ==
  /\ hcPc = "called"
  /\ hcAttempt = 0
  /\ hcPage \in PagesLoadedIn(0)
  /\ captchaInfo = NoInfo
  /\ hcLog = <<>>
  /\ submissions = <<>>
  /\ responses = <<>>
  /\ solveEnd = "none"
  /\ hcResult = "none"

CaptchaInit == OrchParked /\ HcInit /\ NavIdle /\ ScoreIdle /\ ScanIdle /\ RocketIdle /\ ExtIdle

\* return v
HcReturn(v, entries) ==
  /\ hcPc' = "returned"
  /\ hcResult' = v
  /\ hcLog' = hcLog \o entries
  /\ UNCHANGED hcAttempt

\* if (!page.url().includes("/sorry/") && !page.url().includes("captcha")) return true;
\* otherwise the loop is entered with attempt = 1
HcEntry ==
  /\ hcPc = "called"
  /\ IF ~IsChallengeUrl(hcPage.url)
     THEN HcReturn("true", <<>>)
     ELSE /\ hcPc' = "extract"
          /\ hcAttempt' = 1
          /\ hcLog' = Append(hcLog, "captcha_detected")
          /\ UNCHANGED hcResult
  /\ UNCHANGED <<orchVars, extVars, navVars, smVars, scanVars, rocketVars, hcPage, captchaInfo, submissions, responses, solveEnd>>

\* a plausible defect: the loop test is attempt <= maxAttempts + 1
AfterCycleOneMore(a) ==
  IF a + 1 <= maxAttempts + 1
  THEN [pc |-> "reload", attempt |-> a + 1, log |-> <<"captcha_detected">>, result |-> "none"]
  ELSE [pc |-> "returned", attempt |-> a + 1, log |-> <<"captcha_failed">>, result |-> "false"]

\* the loop header after cycle a: attempt++, attempt <= maxAttempts; after
\* the loop: log("captcha_failed", ..); return false
AfterCycle(a) ==
  IF a + 1 <= maxAttempts
  THEN [pc |-> "reload", attempt |-> a + 1, log |-> <<"captcha_detected">>, result |-> "none"]
  ELSE [pc |-> "returned", attempt |-> a + 1, log |-> <<"captcha_failed">>, result |-> "false"]

\* the cycle ends without a return: log("captcha_stale", ..) at the end of
\* the try block, or log("captcha_error", ..) in the catch block
EndCycle(entry) ==
  /\ hcPc' = AfterCycle(hcAttempt).pc
  /\ hcAttempt' = AfterCycle(hcAttempt).attempt
  /\ hcLog' = hcLog \o <<entry>> \o AfterCycle(hcAttempt).log
  /\ hcResult' = AfterCycle(hcAttempt).result

\* if (attempt > 1): page.keyboard.press("F5") and the page is loaded anew;
\* a page that is no challenge any more ends the call with true
HcReload ==
  /\ hcPc = "reload"
  /\ \E pg \in PagesLoadedIn(hcAttempt) :
       /\ hcPage' = pg
       /\ IF IsChallengeUrl(pg.url)
          THEN /\ hcPc' = "extract"
               /\ hcLog' = Append(hcLog, "captcha_refresh")
               /\ UNCHANGED <<hcAttempt, hcResult>>
          ELSE HcReturn("true", <<"captcha_refresh", "captcha_gone_after_reload">>)
  /\ UNCHANGED <<orchVars, extVars, navVars, smVars, scanVars, rocketVars, captchaInfo, submissions, responses, solveEnd>>

\* page.keyboard.press("F5") throws: the inner catch logs
\* "Reload had issues - proceeding with current page" and the cycle goes on
HcReloadFails ==
  /\ hcPc = "reload"
  /\ IF IsChallengeUrl(hcPage.url)
     THEN /\ hcPc' = "extract"
          /\ hcLog' = hcLog \o <<"captcha_refresh", "captcha_refresh_warn">>
          /\ UNCHANGED <<hcAttempt, hcResult>>
     ELSE HcReturn("true", <<"captcha_refresh", "captcha_refresh_warn",
                             "captcha_gone_after_reload">>)
  /\ UNCHANGED <<orchVars, extVars, navVars, smVars, scanVars, rocketVars, hcPage, captchaInfo, submissions, responses, solveEnd>>

\* a plausible defect: a widget without a site key is handed to the solver
ExtractIgnoresMissingKey(info) == "solving"

\* if (!captchaInfo || !captchaInfo.siteKey) { log("ip_blocked", ..); return false; }
AfterExtract(info) == IF ~info.siteKey THEN "ip_blocked" ELSE "solving"

\* const captchaInfo = await page.evaluate(..): the data-sitekey and data-s
\* of the widget of the current page
HcExtract ==
  /\ hcPc = "extract"
  /\ LET info == [siteKey |-> hcPage.siteKey, from |-> hcPage.loadedIn]
     IN /\ captchaInfo' = info
        /\ IF AfterExtract(info) = "ip_blocked"
           THEN HcReturn("false", <<"ip_blocked">>)
           ELSE /\ hcPc' = "solving"
                /\ UNCHANGED <<hcAttempt, hcLog, hcResult>>
  /\ UNCHANGED <<orchVars, extVars, navVars, smVars, scanVars, rocketVars, hcPage, submissions, responses, solveEnd>>

\* log("captcha_solving", ..); solveRecaptcha(page.url(), captchaInfo.siteKey,
\* captchaInfo.dataS, ..): createTask is posted and answers a task id
HcSolveSubmit ==
  /\ hcPc = "solving"
  /\ submissions' = Append(submissions, [attempt |-> hcAttempt, siteKey |-> captchaInfo.siteKey,
                             paramsFrom |-> captchaInfo.from])
  /\ responses' = <<>>
  /\ solveEnd' = "polling"
  /\ hcPc' = "polling"
  /\ hcLog' = Append(hcLog, "captcha_solving")
  /\ UNCHANGED <<orchVars, extVars, navVars, smVars, scanVars, rocketVars, hcAttempt, hcPage, captchaInfo, hcResult>>

\* createTask answers errorId !== 0, or the POST rejects: solveRecaptcha
\* throws, the catch block of handleCaptcha logs captcha_error
HcSolveSubmitFails ==
  /\ hcPc = "solving"
  /\ submissions' = Append(submissions, [attempt |-> hcAttempt, siteKey |-> captchaInfo.siteKey,
                             paramsFrom |-> captchaInfo.from])
  /\ responses' = <<>>
  /\ solveEnd' = "createFailed"
  /\ hcLog' = hcLog \o <<"captcha_solving", "captcha_error">> \o AfterCycle(hcAttempt).log
  /\ hcPc' = AfterCycle(hcAttempt).pc
  /\ hcAttempt' = AfterCycle(hcAttempt).attempt
  /\ hcResult' = AfterCycle(hcAttempt).result
  /\ UNCHANGED <<orchVars, extVars, navVars, smVars, scanVars, rocketVars, hcPage, captchaInfo>>

\* what getTaskResult answers: status "ready"; errorId !== 0; or neither
PollAnswers == {"pending", "ready", "error"}

\* a plausible defect: the errorId of an answer is not looked at
AfterPollIgnoresError(r, n) ==
  IF r = "ready" THEN "token"
  ELSE IF n < SOLVE_POLLS THEN "polling"
  ELSE "timeout"

\* the body of the polling loop after the n-th answer r:
\*   if (res.data.status === "ready") return ..gRecaptchaResponse;
\*   if (res.data.errorId !== 0) throw new Error("2Captcha error: ..");
\* and after the loop: throw new Error("2Captcha timeout ..")
AfterPoll(r, n) ==
  IF r = "ready" THEN "token"
  ELSE IF r = "error" THEN "error"
  ELSE IF n < SOLVE_POLLS THEN "polling"
  ELSE "timeout"

\* await sleep(5000); const res = await axios.post(".../getTaskResult", ..)
SolvePoll ==
  /\ hcPc = "polling"
  /\ \E r \in PollAnswers :
       LET end == AfterPoll(r, Len(responses) + 1)
       IN /\ responses' = Append(responses, r)
          /\ solveEnd' = end
          /\ CASE end = "token" ->
                    /\ hcPc' = "inject"
                    /\ hcLog' = Append(hcLog, "captcha_solved")
                    /\ UNCHANGED <<hcAttempt, hcResult>>
               [] end = "polling" -> UNCHANGED <<hcPc, hcAttempt, hcLog, hcResult>>
               [] OTHER -> EndCycle("captcha_error")
  /\ UNCHANGED <<orchVars, extVars, navVars, smVars, scanVars, rocketVars, hcPage, captchaInfo, submissions>>

\* the POST of getTaskResult rejects: solveRecaptcha throws
SolvePollRejects ==
  /\ hcPc = "polling"
  /\ solveEnd' = "rejected"
  /\ EndCycle("captcha_error")
  /\ UNCHANGED <<orchVars, extVars, navVars, smVars, scanVars, rocketVars, hcPage, captchaInfo, submissions, responses>>

\* the token is written into the form and the form submitted; the page then
\* is where the submission led (or where it was, without a form):
\*   if (!page.url().includes("/sorry/")) { log("captcha_bypassed", ..); return true; }
\*   .. log("captcha_stale", ..)
HcInject ==
  /\ hcPc = "inject"
  /\ \E pg \in PagesLoadedIn(hcAttempt) \cup {hcPage} :
       /\ hcPage' = pg
       /\ IF ~IsSorryUrl(pg.url)
          THEN HcReturn("true", <<"captcha_bypassed">>)
          ELSE EndCycle("captcha_stale")
  /\ UNCHANGED <<orchVars, extVars, navVars, smVars, scanVars, rocketVars, captchaInfo, submissions, responses, solveEnd>>

\* an awaited browser call inside the try block throws (waitForTimeout,
\* page.evaluate, context.cookies): catch (err) { log("captcha_error", ..) }
HcCycleThrows ==
  /\ hcPc \in {"reload", "extract", "solving", "inject"}
  /\ EndCycle("captcha_error")
  /\ UNCHANGED <<orchVars, extVars, navVars, smVars, scanVars, rocketVars, hcPage, captchaInfo, submissions, responses, solveEnd>>

CaptchaNext ==
  \/ HcEntry
  \/ HcReload
  \/ HcReloadFails
  \/ HcExtract
  \/ HcSolveSubmit
  \/ HcSolveSubmitFails
  \/ SolvePoll
  \/ SolvePollRejects
  \/ HcInject
  \/ HcCycleThrows

CaptchaSpec == CaptchaInit /\ [][CaptchaNext]_vars

\* every awaited call of handleCaptcha is answered or throws
FairCaptchaSpec == CaptchaSpec /\ WF_vars(CaptchaNext)

\* ============================================ run(): pages and checkpoints
\* One call of run() of the squidoosh or the organic journey, reduced to the
\* page loads (landing, search submission, pagination), the calls of
\* handleCaptcha and the scans of a results page. What a load ends on, and
\* whether handleCaptcha clears a challenge, is nondeterministic.
MAX_PAGES == 5

\* const maxPages = params.maxPages || MAX_PAGES (organic); squidoosh scans
\* the first results page only
maxPagesOf(prm) ==
  IF prm.journeyType # "organic" THEN 1
  ELSE IF prm.maxPages = 0 THEN MAX_PAGES ELSE prm.maxPages

RunParams ==
  {[journeyType |-> "squidoosh", maxPages |-> 0]}
    \cup {[journeyType |-> "organic", maxPages |-> m] : m \in 0..MaxPages}

NavInit ==
  /\ navPc = "setup"
  /\ runParams \in RunParams
  /\ currentPage = 0
  /\ challenged = FALSE
  /\ trail = <<>>
  /\ runResult = "none"

JourneyInit == OrchParked /\ HcIdle /\ NavInit /\ ScoreIdle /\ ScanIdle /\ RocketIdle /\ ExtIdle

\* run() returns r (finally has run)
NavReturn(r) ==
  /\ navPc' = "returned"
  /\ runResult' = r

\* const captchaOk = await handleCaptcha(page, context, proxyConfig, log):
\* true at once on a page that is no challenge; on a challenge page true once
\* it is cleared, else false. On true run() goes on at okPc, on false it
\* returns failResult.
CallHandleCaptcha(okPc, failResult) ==
  /\ trail' = Append(trail, "handleCaptcha")
  /\ \/ /\ navPc' = okPc
        /\ challenged' = FALSE
        /\ UNCHANGED runResult
     \/ /\ challenged
        /\ NavReturn(failResult)
        /\ UNCHANGED challenged

\* setupBrowserSession: page.goto(googleUrl, ..)
NavLanding ==
  /\ navPc = "setup"
  /\ trail' = Append(trail, "landing")
  /\ challenged' \in BOOLEAN
  /\ navPc' = "landingCheck"
  /\ UNCHANGED <<orchVars, extVars, hcVars, smVars, scanVars, rocketVars, runParams, currentPage, runResult>>

\* setupBrowserSession: "Check for captcha on landing"; false throws
\* "CAPTCHA on Google landing page - blocked", caught by run()
NavLandingCheck ==
  /\ navPc = "landingCheck"
  /\ CallHandleCaptcha("search", "error")
  /\ UNCHANGED <<orchVars, extVars, hcVars, smVars, scanVars, rocketVars, runParams, currentPage>>

\* searchGoogle: humanType, keyboard.press("Enter"), waitForLoadState
NavSearchSubmit ==
  /\ navPc = "search"
  /\ trail' = Append(trail, "search_submitted")
  /\ challenged' \in BOOLEAN
  /\ navPc' = "waitResults"
  /\ UNCHANGED <<orchVars, extVars, hcVars, smVars, scanVars, rocketVars, runParams, currentPage, runResult>>

\* searchGoogle: waitForSelector("#search, #rso, .g") finds the results, at
\* the first wait or at the one after handleCaptcha
NavResultsRendered ==
  /\ navPc \in {"waitResults", "waitAgain"}
  /\ ~challenged
  /\ navPc' = "scan"
  /\ currentPage' = 1
  /\ UNCHANGED <<orchVars, extVars, hcVars, smVars, scanVars, rocketVars, runParams, challenged, trail, runResult>>

\* searchGoogle: the first waitForSelector times out (a challenge page, or
\* slow results): the catch block is entered
NavResultsTimeout ==
  /\ navPc = "waitResults"
  /\ navPc' = "searchCheck"
  /\ UNCHANGED <<orchVars, extVars, hcVars, smVars, scanVars, rocketVars, runParams, currentPage, challenged, trail, runResult>>

\* searchGoogle, catch block: handleCaptcha; false throws
\* "CAPTCHA after search - blocked", caught by run()
NavSearchCheck ==
  /\ navPc = "searchCheck"
  /\ CallHandleCaptcha("waitAgain", "error")
  /\ UNCHANGED <<orchVars, extVars, hcVars, smVars, scanVars, rocketVars, runParams, currentPage>>

\* the scan of the results page the browser is on clicks the target
NavScanFound ==
  /\ navPc = "scan"
  /\ ~challenged
  /\ trail' = Append(trail, "scan")
  /\ NavReturn("found")
  /\ UNCHANGED <<orchVars, extVars, hcVars, smVars, scanVars, rocketVars, runParams, currentPage, challenged>>

\* the scan finds no target: the last page ends the run as not found,
\* organic run(): if (currentPage < maxPages) goes on to the next page
NavScanNotFound ==
  /\ navPc = "scan"
  /\ trail' = Append(trail, "scan")
  /\ IF currentPage < maxPagesOf(runParams)
     THEN navPc' = "paginateCheck" /\ UNCHANGED runResult
     ELSE NavReturn("not_found")
  /\ UNCHANGED <<orchVars, extVars, hcVars, smVars, scanVars, rocketVars, runParams, currentPage, challenged>>

\* organic run(): "Check for captcha before paginating"; false returns the
\* result with captcha: true
NavPaginateCheck ==
  /\ navPc = "paginateCheck"
  /\ CallHandleCaptcha("paginate", "captcha")
  /\ UNCHANGED <<orchVars, extVars, hcVars, smVars, scanVars, rocketVars, runParams, currentPage>>

\* goToNextPage clicked through to the next results page; the loop goes on
\* with currentPage + 1 and scans it
NavNextPage ==
  /\ navPc = "paginate"
  /\ trail' = Append(trail, "page_navigated")
  /\ challenged' \in BOOLEAN
  /\ currentPage' = currentPage + 1
  /\ navPc' = "scan"
  /\ UNCHANGED <<orchVars, extVars, hcVars, smVars, scanVars, rocketVars, runParams, runResult>>

\* goToNextPage found no way on: if (!navigated) break
NavNoNextPage ==
  /\ navPc = "paginate"
  /\ NavReturn("not_found")
  /\ UNCHANGED <<orchVars, extVars, hcVars, smVars, scanVars, rocketVars, runParams, currentPage, challenged, trail>>

\* an awaited call throws; the catch block of run() returns the error result
NavThrows ==
  /\ navPc \in {"setup", "search", "waitAgain", "scan", "paginate"}
  /\ NavReturn("error")
  /\ UNCHANGED <<orchVars, extVars, hcVars, smVars, scanVars, rocketVars, runParams, currentPage, challenged, trail>>

\* the pagesScanned property of the object organic run() returned:
\*   found:     pagesScanned: currentPage
\*   not found: pagesScanned: maxPages (after the loop, also after break)
\* currentPage keeps the value it had when run() returned.
pagesScanned ==
  IF runResult = "found" THEN currentPage ELSE maxPagesOf(runParams)

JourneyNext ==
  \/ NavLanding
  \/ NavLandingCheck
  \/ NavSearchSubmit
  \/ NavResultsRendered
  \/ NavResultsTimeout
  \/ NavSearchCheck
  \/ NavScanFound
  \/ NavScanNotFound
  \/ NavPaginateCheck
  \/ NavNextPage
  \/ NavNoNextPage
  \/ NavThrows

JourneySpec == JourneyInit /\ [][JourneyNext]_vars

\* ===================================================== scoreMatch (shared)
\* A string is the sequence of its characters.

\* String.prototype.toLowerCase, on the letters the inputs are written in
LowerChar(c) ==
  CASE c = "A" -> "a" [] c = "B" -> "b" [] c = "C" -> "c" [] c = "D" -> "d"
    [] c = "H" -> "h" [] c = "O" -> "o" [] c = "P" -> "p" [] c = "S" -> "s"
    [] c = "T" -> "t" [] c = "W" -> "w" [] OTHER -> c

\* a plausible defect: the strings are compared as they are written
keepCase(str) == str

toLowerCase(str) == [i \in DOMAIN str |-> LowerChar(str[i])]

\* String.prototype.includes: sub occurs in str as a substring
includes(str, sub) ==
  \E k \in 0..(Len(str) - Len(sub)) : SubSeq(str, k + 1, k + Len(sub)) = sub

startsWith(str, pre) == Len(str) >= Len(pre) /\ SubSeq(str, 1, Len(pre)) = pre
stripPrefix(str, pre) ==
  IF startsWith(str, pre) THEN SubSeq(str, Len(pre) + 1, Len(str)) ELSE str

PrefixHttp == <<"h", "t", "t", "p", ":", "/", "/">>
PrefixHttps == <<"h", "t", "t", "p", "s", ":", "/", "/">>
PrefixWww == <<"w", "w", "w", ".">>

\* .replace(/^https?:\/\//, "")
stripScheme(str) ==
  IF startsWith(str, PrefixHttps) THEN stripPrefix(str, PrefixHttps)
  ELSE stripPrefix(str, PrefixHttp)

\* .split("/")[0]
beforeSlash(str) ==
  LET slashes == {i \in DOMAIN str : str[i] = "/"}
  IN IF slashes = {} THEN str
     ELSE SubSeq(str, 1, (CHOOSE i \in slashes : \A j \in slashes : i <= j) - 1)

\* .replace(/^https?:\/\//, "").replace(/^www\./, "").split("/")[0]
hostOf(str) == beforeSlash(stripPrefix(stripScheme(str), PrefixWww))

\* .split(/\s+/), without the empty strings it yields at the ends (the
\* filter w.length > 1 drops them): the maximal runs of non-blank characters
RECURSIVE splitWords(_)
splitWords(str) ==
  IF str = <<>> THEN <<>>
  ELSE IF str[1] = " " THEN splitWords(Tail(str))
  ELSE LET blanks == {i \in DOMAIN str : str[i] = " "}
           end == IF blanks = {} THEN Len(str)
                  ELSE (CHOOSE i \in blanks : \A j \in blanks : i <= j) - 1
       IN <<SubSeq(str, 1, end)>> \o splitWords(SubSeq(str, end + 1, Len(str)))

LongerThanOne(w) == Len(w) > 1

\* a plausible defect: the two boundaries are exclusive
wordBonusExclusive(t, bizWords) ==
  LET wordsFound == Cardinality({i \in DOMAIN bizWords : includes(t, bizWords[i])})
  IN IF Len(bizWords) > 0 /\ 4 * wordsFound > 3 * Len(bizWords) THEN 70
     ELSE IF Len(bizWords) > 0 /\ 2 * wordsFound > Len(bizWords) THEN 40
     ELSE 0

\* const wordsFound = bizWords.filter((w) => t.includes(w)).length;
\* const wordRatio = bizWords.length > 0 ? wordsFound / bizWords.length : 0;
\* if (wordRatio >= 0.75) score += 70; else if (wordRatio >= 0.5) score += 40;
wordBonus(t, bizWords) ==
  LET wordsFound == Cardinality({i \in DOMAIN bizWords : includes(t, bizWords[i])})
  IN IF Len(bizWords) > 0 /\ 4 * wordsFound >= 3 * Len(bizWords) THEN 70
     ELSE IF Len(bizWords) > 0 /\ 2 * wordsFound >= Len(bizWords) THEN 40
     ELSE 0

\* a plausible defect: the full-name bonus is given to a name that is not
\* empty only, as the two URL bonuses are given to a URL that is not empty
scoreMatchNamed(txt, hrf, tBusiness, tUrl) ==
  LET bizLow == toLowerCase(tBusiness)
      bizWords == SelectSeq(splitWords(bizLow), LongerThanOne)
      urlLow == hostOf(toLowerCase(tUrl))
      t == toLowerCase(txt)
      h == toLowerCase(hrf)
  IN (IF bizLow # <<>> /\ includes(t, bizLow) THEN 100 ELSE 0)
     + (IF urlLow # <<>> /\ includes(h, urlLow) THEN 90 ELSE 0)
     + (IF urlLow # <<>> /\ includes(t, urlLow) THEN 80 ELSE 0)
     + wordBonus(t, bizWords)

scoreMatch(txt, hrf, tBusiness, tUrl) ==
  LET bizLow == toLowerCase(tBusiness)
      bizWords == SelectSeq(splitWords(bizLow), LongerThanOne)
      urlLow == hostOf(toLowerCase(tUrl))
      t == toLowerCase(txt)
      h == toLowerCase(hrf)
  IN (IF includes(t, bizLow) THEN 100 ELSE 0)
     + (IF urlLow # <<>> /\ includes(h, urlLow) THEN 90 ELSE 0)
     + (IF urlLow # <<>> /\ includes(t, urlLow) THEN 80 ELSE 0)
     + wordBonus(t, bizWords)

\* target business names: "", "ab", "Ab Cd", "ab cd da", "ab  cd da bc", "a b"
Names ==
  { <<>>,
    <<"a", "b">>,
    <<"A", "b", " ", "C", "d">>,
    <<"a", "b", " ", "c", "d", " ", "d", "a">>,
    <<"a", "b", " ", " ", "c", "d", " ", "d", "a", " ", "b", "c">>,
    <<"a", " ", "b">> }
\* texts of a candidate: "", "ab", "AB cd", "ab cd da", "bc da cd", "dab", "see ab.co", "Ab Cd - ab.co"
Texts ==
  { <<>>,
    <<"a", "b">>,
    <<"A", "B", " ", "c", "d">>,
    <<"a", "b", " ", "c", "d", " ", "d", "a">>,
    <<"b", "c", " ", "d", "a", " ", "c", "d">>,
    <<"d", "a", "b">>,
    <<"s", "e", "e", " ", "a", "b", ".", "c", "o">>,
    <<"A", "b", " ", "C", "d", " ", "-", " ", "a", "b", ".", "c", "o">> }
\* target URLs: "", "https://www.ab.co/x", "http://ab.co", "WWW.AB.CO", "ab.co/"
Urls ==
  { <<>>,
    <<"h", "t", "t", "p", "s", ":", "/", "/", "w", "w", "w", ".", "a", "b", ".", "c", "o", "/", "x">>,
    <<"h", "t", "t", "p", ":", "/", "/", "a", "b", ".", "c", "o">>,
    <<"W", "W", "W", ".", "A", "B", ".", "C", "O">>,
    <<"a", "b", ".", "c", "o", "/">> }
\* links of a candidate: "", "https://www.ab.co/", "https://cd.co/p", "https://cd.co/ab.co", "HTTP://AB.CO/x"
Hrefs ==
  { <<>>,
    <<"h", "t", "t", "p", "s", ":", "/", "/", "w", "w", "w", ".", "a", "b", ".", "c", "o", "/">>,
    <<"h", "t", "t", "p", "s", ":", "/", "/", "c", "d", ".", "c", "o", "/", "p">>,
    <<"h", "t", "t", "p", "s", ":", "/", "/", "c", "d", ".", "c", "o", "/", "a", "b", ".", "c", "o">>,
    <<"H", "T", "T", "P", ":", "/", "/", "A", "B", ".", "C", "O", "/", "x">> }

ScoreInit ==
  /\ text \in Texts
  /\ href \in Hrefs
  /\ targetBusiness \in Names
  /\ targetUrl \in Urls
  /\ score = -1

ScoreMatchInit == OrchParked /\ HcIdle /\ NavIdle /\ ScoreInit /\ ScanIdle /\ RocketIdle /\ ExtIdle

\* const score = scoreMatch(text, href, targetBusiness, targetUrl)
CallScoreMatch ==
  /\ score = -1
  /\ score' = scoreMatch(text, href, targetBusiness, targetUrl)
  /\ UNCHANGED <<orchVars, extVars, hcVars, navVars, scanVars, rocketVars, text, href, targetBusiness, targetUrl>>

ScoreNext == CallScoreMatch

ScoreSpec == ScoreMatchInit /\ [][ScoreNext]_vars

\* ============================================ scan of a results page
\* One execution followed from the rendered results page: the squidoosh
\* run() through its three strategies to its return value, the result
\* update and the log inserts of processJob; or one call of the organic
\* journey's scanOrganicResults.

MATCH_THRESHOLD == 50

\* a plausible defect: a score of 40 (half of the name words) is a match
MeetsFromForty(s) == s >= 40

\* if (scoreMatch(txt, href, targetBusiness, targetUrl) >= 50)
Meets(s) == s >= MATCH_THRESHOLD

\* String.prototype.trim, on blanks
RECURSIVE trim(_)
trim(str) ==
  IF str = <<>> THEN str
  ELSE IF str[1] = " " THEN trim(Tail(str))
  ELSE IF str[Len(str)] = " " THEN trim(SubSeq(str, 1, Len(str) - 1))
  ELSE str

endsWith(str, suf) ==
  Len(str) >= Len(suf) /\ SubSeq(str, Len(str) - Len(suf) + 1, Len(str)) = suf

\* the links of the results page: displayed text, href, and the container
\* the link sits in ("ad": #tads, data-text-ad ..; "maps": a local-pack block)
\* "ab cd da" and "dab" at "https://cd.co/p"; "ab", "dab" and the ad
\* "Ab Cd - ab.co" at "https://www.ab.co/"
Links ==
  { [txt |-> <<"a", "b", " ", "c", "d", " ", "d", "a">>, href |-> <<"h", "t", "t", "p", "s", ":", "/", "/", "c", "d", ".", "c", "o", "/", "p">>, kind |-> "plain"],
    [txt |-> <<"d", "a", "b">>, href |-> <<"h", "t", "t", "p", "s", ":", "/", "/", "c", "d", ".", "c", "o", "/", "p">>, kind |-> "plain"],
    [txt |-> <<"a", "b">>, href |-> <<"h", "t", "t", "p", "s", ":", "/", "/", "w", "w", "w", ".", "a", "b", ".", "c", "o", "/">>, kind |-> "plain"],
    [txt |-> <<"d", "a", "b">>, href |-> <<"h", "t", "t", "p", "s", ":", "/", "/", "w", "w", "w", ".", "a", "b", ".", "c", "o", "/">>, kind |-> "plain"],
    [txt |-> <<"A", "b", " ", "C", "d", " ", "-", " ", "a", "b", ".", "c", "o">>, href |-> <<"h", "t", "t", "p", "s", ":", "/", "/", "w", "w", "w", ".", "a", "b", ".", "c", "o", "/">>, kind |-> "ad"] }

\* params.targetBusiness, params.targetUrl: "Ab Cd" at "https://www.ab.co/x"
Targets ==
  { [targetBusiness |-> <<"A", "b", " ", "C", "d">>,
     targetUrl |-> <<"h", "t", "t", "p", "s", ":", "/", "/", "w", "w", "w", ".", "a", "b", ".", "c", "o", "/", "x">>] }

\* the locator of the strategy run() is in
ListOf(p) ==
  CASE p = "maps" -> lists.mapsPack
    [] p = "h3s" -> lists.h3s
    [] p = "allLinks" -> lists.allLinks
    [] OTHER -> <<>>

ScoreOf(l) == scoreMatch(l.txt, l.href, target.targetBusiness, target.targetUrl)

\* log("maps_target_clicked" | "organic_target_clicked" | "broad_target_clicked")
ClickedLog(p) ==
  CASE p = "maps" -> "maps_target_clicked"
    [] p = "h3s" -> "organic_target_clicked"
    [] OTHER -> "broad_target_clicked"

\* a plausible defect: the next strategy runs although a target was clicked
AfterStrategyUnguarded(p, fnd) ==
  CASE p = "maps" -> "h3s"
    [] p = "h3s" -> "allLinks"
    [] OTHER -> IF fnd THEN "dwell" ELSE "notFound"

\* where run() goes when the loop of strategy p is left with found = fnd:
\* Strategy 2 and Strategy 3 are guarded by if (!found)
AfterStrategy(p, fnd) ==
  CASE fnd -> "dwell"
    [] ~fnd /\ p = "maps" -> "h3s"
    [] ~fnd /\ p = "h3s" -> "allLinks"
    [] OTHER -> "notFound"

\* what run() logs when it enters the strategy at nxt
EntryLog(nxt) ==
  CASE nxt = "maps" /\ Len(lists.mapsPack) > 0 -> <<"maps_pack_found">>
    [] nxt = "h3s" -> <<"organic_results">>
    [] OTHER -> <<>>

\* Strategy 3 only: if (txt.trim().length < 3) continue;
SkippedUnscored(p, l) == p = "allLinks" /\ Len(trim(l.txt)) < 3

SeqsUpTo(S, n) == UNION {[1..k -> S] : k \in 0..n}

\* searchGoogle has returned (its last log is "scrolled_results") and the
\* locators are counted; the page shows up to MaxLinks links, spread over
\* the local pack (mapsPack), the organic headings (h3s) and the other
\* links of the page (allLinks). The jobs row is in running.
ScanInitFor(targets) ==
  /\ scanJourney \in JOURNEYS
  /\ scanPc = IF scanJourney = "organic" THEN "collect" ELSE "maps"
  /\ target \in targets
  /\ \E all \in SeqsUpTo(Links, MaxLinks) :
       \E a \in 0..Len(all) : \E b \in a..Len(all) :
         lists = [mapsPack |-> SubSeq(all, 1, a), h3s |-> SubSeq(all, a + 1, b),
                  allLinks |-> SubSeq(all, b + 1, Len(all))]
  /\ results = <<>>
  /\ scanIdx = 0
  /\ scanned = <<>>
  /\ found = FALSE
  /\ clickedRank = 0
  /\ steps = <<"scrolled_results">>
               \o (IF scanJourney = "squidoosh" THEN EntryLog("maps") ELSE <<>>)
  /\ scanResult = NoScanResult
  /\ rowStatus = "running"
  /\ sink = <<>>
  /\ logIdx = 0

ScanInit == ScanInitFor(Targets)

ResultsInit == OrchParked /\ HcIdle /\ NavIdle /\ ScoreIdle /\ ScanInit /\ RocketIdle /\ ExtIdle


Strategies == {"maps", "h3s", "allLinks"}

\* one iteration of the loop of strategy p: read the link, score it, and
\* click it when the score meets the threshold (found = true; clickedRank =
\* i + 1; log(..); break)
ScanCandidate(p) ==
  /\ scanPc = p
  /\ scanJourney = "squidoosh"
  /\ scanIdx < Len(ListOf(p))
  /\ LET l == ListOf(p)[scanIdx + 1]
         s == ScoreOf(l)
         nxt == AfterStrategy(p, TRUE)
     IN IF SkippedUnscored(p, l)
        THEN /\ scanIdx' = scanIdx + 1
             /\ UNCHANGED <<scanPc, scanned, found, clickedRank, steps>>
        ELSE IF Meets(s)
        THEN /\ scanned' = Append(scanned, [tag |-> p, pos |-> scanIdx + 1, score |-> s,
                                            clicked |-> TRUE])
             /\ found' = TRUE
             /\ clickedRank' = scanIdx + 1
             /\ steps' = Append(steps, ClickedLog(p)) \o EntryLog(nxt)
             /\ scanPc' = nxt
             /\ scanIdx' = 0
        ELSE /\ scanned' = Append(scanned, [tag |-> p, pos |-> scanIdx + 1, score |-> s,
                                            clicked |-> FALSE])
             /\ scanIdx' = scanIdx + 1
             /\ UNCHANGED <<scanPc, found, clickedRank, steps>>
  /\ UNCHANGED <<orchVars, extVars, hcVars, navVars, smVars, rocketVars, scanJourney, target, lists, results,
                 scanResult, rowStatus, sink, logIdx>>

\* the loop of strategy p ran to its end
StrategyEnd(p) ==
  /\ scanPc = p
  /\ scanJourney = "squidoosh"
  /\ scanIdx = Len(ListOf(p))
  /\ scanPc' = AfterStrategy(p, found)
  /\ scanIdx' = 0
  /\ steps' = steps \o EntryLog(AfterStrategy(p, found))
  /\ UNCHANGED <<orchVars, extVars, hcVars, navVars, smVars, rocketVars, scanJourney, target, lists, results,
                 scanned, found, clickedRank, scanResult, rowStatus, sink, logIdx>>

\* a plausible defect: a scan that finds nothing is reported as a failure
NotFoundAsFailure ==
  [success |-> FALSE, found |-> FALSE, clickedRank |-> 0, error |-> "target not found"]

\* return { success: true, found: false, clickedRank: 0, steps, duration_ms }
NotFoundResult ==
  [success |-> TRUE, found |-> FALSE, clickedRank |-> 0, error |-> "none"]

\* return { success: true, found: true, clickedRank, steps, duration_ms }
FoundResult(rank) ==
  [success |-> TRUE, found |-> TRUE, clickedRank |-> rank, error |-> "none"]

\* catch: return { success: false, found: false, steps, error: errDetail, .. }
\* (the object has no clickedRank: -1)
CaughtResult ==
  [success |-> FALSE, found |-> FALSE, clickedRank |-> -1, error |-> "error"]

\* if (!found) { await page.title(); log("target_not_found", ..); return {..} }
\* and the finally block (cleanup) after it
NotFoundReturn ==
  /\ scanPc = "notFound"
  /\ steps' = Append(steps, "target_not_found")
  /\ scanResult' = NotFoundResult
  /\ scanPc' = "save"
  /\ UNCHANGED <<orchVars, extVars, hcVars, navVars, smVars, rocketVars, scanJourney, target, lists, results,
                 scanIdx, scanned, found, clickedRank, rowStatus, sink, logIdx>>

\* await dwell(page, dwellTimeMs, log); return {..}; finally
DwellReturn ==
  /\ scanPc = "dwell"
  /\ steps' = steps \o <<"dwelling", "dwell_complete">>
  /\ scanResult' = FoundResult(clickedRank)
  /\ scanPc' = "save"
  /\ UNCHANGED <<orchVars, extVars, hcVars, navVars, smVars, rocketVars, scanJourney, target, lists, results,
                 scanIdx, scanned, found, clickedRank, rowStatus, sink, logIdx>>

\* an await of run() rejects (count, textContent, getAttribute, scroll,
\* click, title, dwell): catch (err) { log("error", ..); return {..} }; finally
RunCatch ==
  /\ scanPc \in Strategies \cup {"notFound", "dwell"}
  /\ scanJourney = "squidoosh"
  /\ steps' = Append(steps, "error")
  /\ scanResult' = CaughtResult
  /\ scanPc' = "save"
  /\ UNCHANGED <<orchVars, extVars, hcVars, navVars, smVars, rocketVars, scanJourney, target, lists, results,
                 scanIdx, scanned, found, clickedRank, rowStatus, sink, logIdx>>

\* processJob, the loop left with a result that has no captcha flag:
\* await supabase.from("jobs").update({ status: .., result, error }).eq("id", jobId)
SaveResult ==
  /\ scanPc = "save"
  /\ \E w \in WriteOutcomes :
       rowStatus' = IF w = "ok" THEN StatusOf(scanResult) ELSE rowStatus
  /\ scanPc' = "logs"
  /\ UNCHANGED <<orchVars, extVars, hcVars, navVars, smVars, rocketVars, scanJourney, target, lists, results,
                 scanIdx, scanned, found, clickedRank, steps, scanResult, sink, logIdx>>

\* the await of the result update rejects: processJob rejects
SaveRejects ==
  /\ scanPc = "save"
  /\ scanPc' = "crashed"
  /\ UNCHANGED <<orchVars, extVars, hcVars, navVars, smVars, rocketVars, scanJourney, target, lists, results,
                 scanIdx, scanned, found, clickedRank, steps, scanResult, rowStatus, sink,
                 logIdx>>

\* for (let i = 0; i < result.steps.length; i++) {
\*   await supabase.from("execution_logs").insert({ job_id, step_number: i, action, .. }) }
\* the returned object is not read: a failed insert is passed over
InsertStep ==
  /\ scanPc = "logs"
  /\ logIdx < Len(steps)
  /\ \E w \in WriteOutcomes :
       sink' = IF w = "ok"
               THEN Append(sink, [step_number |-> logIdx, action |-> steps[logIdx + 1]])
               ELSE sink
  /\ logIdx' = logIdx + 1
  /\ UNCHANGED <<orchVars, extVars, hcVars, navVars, smVars, rocketVars, scanJourney, target, lists, results,
                 scanIdx, scanned, found, clickedRank, steps, scanResult, rowStatus, scanPc>>

\* the await of an insert rejects: processJob rejects, the loop is left
InsertRejects ==
  /\ scanPc = "logs"
  /\ logIdx < Len(steps)
  /\ scanPc' = "crashed"
  /\ UNCHANGED <<orchVars, extVars, hcVars, navVars, smVars, rocketVars, scanJourney, target, lists, results,
                 scanIdx, scanned, found, clickedRank, steps, scanResult, rowStatus, sink,
                 logIdx>>

\* the log loop ran to its end: processJob resolves
LogsEnd ==
  /\ scanPc = "logs"
  /\ logIdx = Len(steps)
  /\ scanPc' = "done"
  /\ UNCHANGED <<orchVars, extVars, hcVars, navVars, smVars, rocketVars, scanJourney, target, lists, results,
                 scanIdx, scanned, found, clickedRank, steps, scanResult, rowStatus, sink,
                 logIdx>>

\* ------------------------------------- organic journey: scanOrganicResults
GoogleSearchPath == <<"/", "s", "e", "a", "r", "c", "h">>
GoogleSearchHost == <<"g", "o", "o", "g", "l", "e", ".", "c", "o", "m", "/", "s", "e", "a", "r", "c", "h">>
GoogleSearchUrl == <<"h", "t", "t", "p", "s", ":", "/", "/", "w", "w", "w", ".", "g", "o", "o", "g", "l", "e", ".", "c", "o", "m", "/", "s", "e", "a", "r", "c", "h">>
GoogleMaps == <<"g", "o", "o", "g", "l", "e", ".", "c", "o", "m", "/", "m", "a", "p", "s">>
\* google.com, gstatic, googleapis, googleadservices, webcache, youtube.com/watch
GoogleOwned ==
  { <<"g", "o", "o", "g", "l", "e", ".", "c", "o", "m">>,
    <<"g", "s", "t", "a", "t", "i", "c">>,
    <<"g", "o", "o", "g", "l", "e", "a", "p", "i", "s">>,
    <<"g", "o", "o", "g", "l", "e", "a", "d", "s", "e", "r", "v", "i", "c", "e", "s">>,
    <<"w", "e", "b", "c", "a", "c", "h", "e">>,
    <<"y", "o", "u", "t", "u", "b", "e", ".", "c", "o", "m", "/", "w", "a", "t", "c", "h">> }

\* Strategy 1: if (href && !href.startsWith("/search") &&
\*   !href.includes("google.com/search") && txt.trim().length > 2) results.push(..)
KeptHeading(l) ==
  /\ l.href # <<>>
  /\ ~startsWith(l.href, GoogleSearchPath)
  /\ ~includes(l.href, GoogleSearchHost)
  /\ Len(trim(l.txt)) > 2

\* Strategy 2, over a[href^="http"]: links of Google's own hosts are passed
\* over; if (txt.trim().length > 2) results.push(..)
KeptExternal(l) ==
  /\ startsWith(l.href, PrefixHttp) \/ startsWith(l.href, PrefixHttps)
  /\ \A g \in GoogleOwned : ~includes(l.href, g)
  /\ Len(trim(l.txt)) > 2

\* the results array: the h3 links that pass the filter, and the external
\* links of the page when there is none (if (results.length === 0))
Collected ==
  IF SelectSeq(lists.h3s, KeptHeading) # <<>> THEN SelectSeq(lists.h3s, KeptHeading)
  ELSE SelectSeq(lists.mapsPack \o lists.h3s \o lists.allLinks, KeptExternal)

CollectResults ==
  /\ scanPc = "collect"
  /\ results' = Collected
  /\ steps' = Append(steps, "organic_scan")
  /\ scanPc' = "results"
  /\ UNCHANGED <<orchVars, extVars, hcVars, navVars, smVars, rocketVars, scanJourney, target, lists,
                 scanIdx, scanned, found, clickedRank, scanResult, rowStatus, sink, logIdx>>

\* what the two checks of an iteration give: link.evaluate walks up from the
\* link and answers whether it lies in an ad container (in the local pack),
\* or rejects, and then catch { /* proceed */ } leaves the link unskipped
CheckOutcomes == {"answers", "rejects"}
isAd(l, o) == l.kind = "ad" /\ o = "answers"
isMaps(l, o) == l.kind = "maps" /\ o = "answers"

\* if (isAd) continue; if (isMaps) continue; then the links of Google's own
\* result pages
SkippedResult(l, adCheck, mapsCheck) ==
  \/ isAd(l, adCheck)
  \/ isMaps(l, mapsCheck)
  \/ startsWith(l.href, GoogleSearchPath)
  \/ startsWith(l.href, GoogleSearchUrl)
  \/ includes(l.href, GoogleMaps)

\* const domainMatch = targetDomain && (hrefDomain === targetDomain ||
\*   hrefDomain.endsWith("." + targetDomain) || href.toLowerCase().includes(targetDomain))
domainMatch(l) ==
  LET targetDomain == hostOf(toLowerCase(target.targetUrl))
      hrefDomain == hostOf(toLowerCase(l.href))
  IN /\ targetDomain # <<>>
     /\ \/ hrefDomain = targetDomain
        \/ endsWith(hrefDomain, <<".">> \o targetDomain)
        \/ includes(toLowerCase(l.href), targetDomain)

\* one iteration of for (let i = 0; i < count; i++):
\* if (score >= 50 || domainMatch) { ..click; return { found: true, rank: i + 1, .. } }
ResultStep ==
  /\ scanPc = "results"
  /\ scanIdx < Len(results)
  /\ \E adCheck, mapsCheck \in CheckOutcomes :
     LET l == results[scanIdx + 1]
         s == ScoreOf(l)
     IN IF SkippedResult(l, adCheck, mapsCheck)
        THEN /\ scanIdx' = scanIdx + 1
             /\ steps' = IF isAd(l, adCheck) THEN Append(steps, "ad_skipped")
                          ELSE IF isMaps(l, mapsCheck) THEN Append(steps, "maps_skipped")
                          ELSE steps
             /\ UNCHANGED <<scanPc, scanned, found, clickedRank>>
        ELSE IF Meets(s) \/ domainMatch(l)
        THEN /\ scanned' = Append(scanned, [tag |-> "results", pos |-> scanIdx + 1,
                                            score |-> s, clicked |-> TRUE])
             /\ found' = TRUE
             /\ clickedRank' = scanIdx + 1
             /\ steps' = steps \o <<"result_debug", "organic_target_clicked">>
             /\ scanPc' = "returned"
             /\ UNCHANGED scanIdx
        ELSE /\ scanned' = Append(scanned, [tag |-> "results", pos |-> scanIdx + 1,
                                            score |-> s, clicked |-> FALSE])
             /\ scanIdx' = scanIdx + 1
             /\ steps' = Append(steps, "result_debug")
             /\ UNCHANGED <<scanPc, found, clickedRank>>
  /\ UNCHANGED <<orchVars, extVars, hcVars, navVars, smVars, rocketVars, scanJourney, target, lists, results,
                 scanResult, rowStatus, sink, logIdx>>

\* return { found: false };
ResultsEnd ==
  /\ scanPc = "results"
  /\ scanIdx = Len(results)
  /\ scanPc' = "returned"
  /\ UNCHANGED <<orchVars, extVars, hcVars, navVars, smVars, rocketVars, scanJourney, target, lists, results,
                 scanIdx, scanned, found, clickedRank, steps, scanResult, rowStatus, sink,
                 logIdx>>

\* an await of scanOrganicResults rejects (count, scrollIntoViewIfNeeded, click)
ResultsThrow ==
  /\ scanPc \in {"collect", "results"}
  /\ scanPc' = "threw"
  /\ UNCHANGED <<orchVars, extVars, hcVars, navVars, smVars, rocketVars, scanJourney, target, lists, results,
                 scanIdx, scanned, found, clickedRank, steps, scanResult, rowStatus, sink,
                 logIdx>>

ResultsNext ==
  \/ \E p \in Strategies : ScanCandidate(p)
  \/ \E p \in Strategies : StrategyEnd(p)
  \/ NotFoundReturn
  \/ DwellReturn
  \/ RunCatch
  \/ SaveResult
  \/ SaveRejects
  \/ CollectResults
  \/ ResultStep
  \/ ResultsEnd
  \/ ResultsThrow

ResultsSpec == ResultsInit /\ [][ResultsNext]_vars

\* the same scan for a job without a business name:
\* const targetBusiness = params.targetBusiness || params.target_business || ""
UnnamedTargets ==
  { [targetBusiness |-> <<>>,
     targetUrl |-> <<"h", "t", "t", "p", "s", ":", "/", "/", "w", "w", "w", ".", "a", "b", ".", "c", "o", "/", "x">>] }

UnnamedInit ==
  OrchParked /\ HcIdle /\ NavIdle /\ ScoreIdle /\ ScanInitFor(UnnamedTargets)
  /\ RocketIdle /\ ExtIdle

UnnamedSpec == UnnamedInit /\ [][ResultsNext]_vars

\* ------------------------------------------------ the log of one execution
\* One execution of processJob followed from createLogger to the end of
\* its log loop: the journey logs up to MaxSteps steps and returns.
LogActions == {"search_submitted", "error"}

\* const { steps, log } = createLogger(startTime): const steps = []
LogInit ==
  /\ scanPc = "run"
  /\ scanJourney = "squidoosh"
  /\ target = [targetBusiness |-> <<>>, targetUrl |-> <<>>]
  /\ lists = [mapsPack |-> <<>>, h3s |-> <<>>, allLinks |-> <<>>]
  /\ results = <<>>
  /\ scanIdx = 0
  /\ scanned = <<>>
  /\ found = FALSE
  /\ clickedRank = 0
  /\ steps = <<>>
  /\ scanResult = NoScanResult
  /\ rowStatus = "running"
  /\ sink = <<>>
  /\ logIdx = 0

ExecutionLogInit == OrchParked /\ HcIdle /\ NavIdle /\ ScoreIdle /\ LogInit /\ RocketIdle /\ ExtIdle

\* log(action, details): steps.push({ action, timestamp: ts, details })
Log(action) ==
  /\ scanPc = "run"
  /\ Len(steps) < MaxSteps
  /\ steps' = Append(steps, action)
  /\ UNCHANGED <<orchVars, extVars, hcVars, navVars, smVars, rocketVars, scanPc, scanJourney, target, lists,
                 results, scanIdx, scanned, found, clickedRank, scanResult, rowStatus, sink,
                 logIdx>>

\* run() returns { success, found, .., steps, .. } with the steps array of
\* its logger; the retry loop is left (no captcha flag)
RunReturns ==
  /\ scanPc = "run"
  /\ scanResult' \in {NotFoundResult, FoundResult(1), CaughtResult}
  /\ scanPc' = "save"
  /\ UNCHANGED <<orchVars, extVars, hcVars, navVars, smVars, rocketVars, scanJourney, target, lists, results,
                 scanIdx, scanned, found, clickedRank, steps, rowStatus, sink, logIdx>>

ExecutionLogNext ==
  \/ \E action \in LogActions : Log(action)
  \/ RunReturns
  \/ SaveResult
  \/ SaveRejects
  \/ InsertStep
  \/ InsertRejects
  \/ LogsEnd

ExecutionLogSpec == ExecutionLogInit /\ [][ExecutionLogNext]_vars

\* ================================= super-rocket journey: raced scrolls
\* One run() of the super-rocket journey followed from its first scroll: the
\* loops of run() call humanScroll MaxScrolls times in all, each time as
\*   await Promise.race([humanScroll(page, isMobile, personality), sleep(5000)]).catch(() => {});
\*   await sleep(rand(..));
\* then run() dwells and returns, and finally awaits cleanup.
\* humanScroll(page, totalDistance, log) receives isMobile as totalDistance:
\* on a mobile viewport mobileSwipeScroll runs while (scrolled < true), one
\* swipe (page.evaluate) and one pause (page.waitForTimeout); on a desktop
\* viewport while (0 < false) runs no iteration.
RocketInit ==
  /\ rkPc = "step"
  /\ rkRace = 0
  /\ isMobile \in BOOLEAN
  /\ scrolls = [k \in 1..MaxScrolls |-> "uncalled"]
  /\ pageLog = {}

SuperRocketInit == OrchParked /\ HcIdle /\ NavIdle /\ ScoreIdle /\ ScanIdle /\ RocketInit /\ ExtIdle

InFlight(k) == scrolls[k] \in {"swipe", "pause"}

\* what run() is at, as the scroll calls see it: the race it awaits, a later
\* step, or the teardown
RunAt ==
  [race |-> rkRace, awaiting |-> rkPc = "race", teardown |-> rkPc \in {"cleanup", "returned"}]

\* run() calls humanScroll: the call runs to its first await, which is the
\* page.evaluate of the swipe on mobile; on desktop it returns without one
RaceStart ==
  /\ rkPc = "step"
  /\ rkRace < MaxScrolls
  /\ rkRace' = rkRace + 1
  /\ rkPc' = "race"
  /\ scrolls' = [scrolls EXCEPT ![rkRace + 1] = IF isMobile THEN "swipe" ELSE "done"]
  /\ pageLog' = IF isMobile
                THEN pageLog \cup {[scroll |-> rkRace + 1, action |-> "evaluate",
                                    race |-> rkRace + 1, awaiting |-> TRUE, teardown |-> FALSE]}
                ELSE pageLog
  /\ UNCHANGED <<orchVars, extVars, hcVars, navVars, smVars, scanVars, isMobile>>

\* the page.evaluate of call k returns: scrolled += swipeDistance, and the
\* pause is issued: await page.waitForTimeout(..)
ScrollSwipeDone(k) ==
  /\ scrolls[k] = "swipe"
  /\ rkPc # "returned"
  /\ scrolls' = [scrolls EXCEPT ![k] = "pause"]
  /\ pageLog' = pageLog \cup {[scroll |-> k, action |-> "waitForTimeout", race |-> RunAt.race,
                               awaiting |-> RunAt.awaiting, teardown |-> RunAt.teardown]}
  /\ UNCHANGED <<orchVars, extVars, hcVars, navVars, smVars, scanVars, rkPc, rkRace, isMobile>>

\* the pause of call k is over: the loop condition fails, humanScroll resolves
ScrollPauseDone(k) ==
  /\ scrolls[k] = "pause"
  /\ rkPc # "returned"
  /\ scrolls' = [scrolls EXCEPT ![k] = "done"]
  /\ UNCHANGED <<orchVars, extVars, hcVars, navVars, smVars, scanVars, rkPc, rkRace, isMobile, pageLog>>

\* a page action of call k rejects (page closed, target crashed): humanScroll
\* rejects; nobody but the race holds its promise
ScrollRejects(k) ==
  /\ InFlight(k)
  /\ scrolls' = [scrolls EXCEPT ![k] = "rejected"]
  /\ UNCHANGED <<orchVars, extVars, hcVars, navVars, smVars, scanVars, rkPc, rkRace, isMobile, pageLog>>

\* Promise.race([humanScroll(..), sleep(5000)]) settles when the scroll call
\* has settled or when the 5 seconds are over, whichever is first (no await
\* of the scroll call has a deadline of its own); .catch(() => {}) swallows
\* a rejection, await sleep(rand(..)) is over: run() is at its next step
RaceOver ==
  /\ rkPc = "race"
  /\ rkPc' = "step"
  /\ UNCHANGED <<orchVars, extVars, hcVars, navVars, smVars, scanVars, rkRace, isMobile, scrolls, pageLog>>

\* after the last loop: await sleep(dwellTime); return {..}; finally starts
\* cleanup(session.browser, ..): browser.close() is sent
DwellAndReturn ==
  /\ rkPc = "step"
  /\ rkRace = MaxScrolls
  /\ rkPc' = "cleanup"
  /\ UNCHANGED <<orchVars, extVars, hcVars, navVars, smVars, scanVars, rkRace, isMobile, scrolls, pageLog>>

\* a step of run() throws: catch builds the error result, finally starts cleanup
RocketCatch ==
  /\ rkPc = "step"
  /\ rkPc' = "cleanup"
  /\ UNCHANGED <<orchVars, extVars, hcVars, navVars, smVars, scanVars, rkRace, isMobile, scrolls, pageLog>>

\* cleanup is over (the browser is closed, the profile deleted): run() has
\* returned; what is still pending on the closed page rejects
CleanupOver ==
  /\ rkPc = "cleanup"
  /\ rkPc' = "returned"
  /\ scrolls' = [k \in 1..MaxScrolls |-> IF InFlight(k) THEN "rejected" ELSE scrolls[k]]
  /\ UNCHANGED <<orchVars, extVars, hcVars, navVars, smVars, scanVars, rkRace, isMobile, pageLog>>

SuperRocketNext ==
  \/ RaceStart
  \/ \E k \in 1..MaxScrolls : ScrollSwipeDone(k)
  \/ \E k \in 1..MaxScrolls : ScrollPauseDone(k)
  \/ \E k \in 1..MaxScrolls : ScrollRejects(k)
  \/ RaceOver
  \/ DwellAndReturn
  \/ RocketCatch
  \/ CleanupOver

SuperRocketSpec == SuperRocketInit /\ [][SuperRocketNext]_vars

\* ============================== run(): parameter checks at the entry
\* One processJob with one journey module, followed from the entry of run()
\* to the end of the log loop. The registry of the worker names squidoosh
\* and organic; the other modules export the same run(job) and are followed
\* through the same loop. A result is the object run() returned: keys is the
\* set of its properties among those processJob reads.
EntryJourneys ==
  {"squidoosh", "organic", "squidoosh-local", "tiered", "thanos-local", "birthday",
   "super-rocket"}

EntryParams ==
  [keyword : {"", "kw"}, business_name : {"", "biz"}, latitude : {0, 40},
   longitude : {0, 74}, tier1_url : {"", "url"}, image_base64 : {"", "img"},
   cid : {"", "cid"}]

\* the properties of the object an early return of run() builds
\*   squidoosh-local: { success, found, steps, error, journeyType, duration_ms }
\*   tiered, thanos-local, birthday: { success, error, journeyType, duration_ms }
RejectedKeys(j) ==
  IF j = "squidoosh-local" THEN {"success", "found", "steps", "error", "duration_ms"}
  ELSE {"success", "error", "duration_ms"}

\* catch block of run(): { success: false, found: false, .., steps, error, duration_ms }
CaughtKeys == {"success", "found", "steps", "error", "duration_ms"}

\* { success: true, found, .., steps, duration_ms }
ReturnedKeys == {"success", "found", "steps", "duration_ms"}

\* the checks run() makes on job.params before it sets up a session:
\* "none" when it goes on
Rejection(j, prm) ==
  CASE j = "squidoosh-local" ->
         IF prm.keyword = "" /\ prm.business_name = "" THEN "No keyword or business name provided"
         ELSE IF prm.latitude = 0 \/ prm.longitude = 0 THEN "No coordinates (latitude/longitude)"
         ELSE "none"
    [] j = "tiered" -> IF prm.tier1_url = "" THEN "No Tier 1 URL" ELSE "none"
    [] j = "thanos-local" -> IF prm.tier1_url = "" THEN "No Bitly URL" ELSE "none"
    [] j = "birthday" ->
         IF prm.keyword = "" THEN "No keyword"
         ELSE IF prm.image_base64 = "" THEN "No image base64"
         ELSE "none"
    [] j = "super-rocket" ->
         IF prm.cid = "" THEN "CID is required for Super Rocket journey"
         ELSE IF prm.latitude = 0 \/ prm.longitude = 0 THEN "Latitude and longitude are required"
         ELSE "none"
    [] OTHER -> "none"

\* the journeys whose checks are throw statements inside the try block: the
\* catch block builds the result and the finally block runs
ChecksInsideTry(j) == j = "super-rocket"

\* a plausible defect: a rejected job is reported like a blocked one, with
\* the flag the retry loop reads
RejectedFlagged(j, prm) ==
  [keys |-> RejectedKeys(j) \cup {"captcha"}, success |-> FALSE, captcha |-> TRUE,
   error |-> Rejection(j, prm)]

\* what run() returns when a check fails: the early return's object, or the
\* catch block's when the check is a throw statement
Rejected(j, prm) ==
  [keys |-> IF ChecksInsideTry(j) THEN CaughtKeys ELSE RejectedKeys(j),
   success |-> FALSE, captcha |-> FALSE, error |-> Rejection(j, prm)]

EnInit ==
  /\ enPc = "validate"
  /\ enJourney \in EntryJourneys
  /\ enParams \in EntryParams
  /\ enSession = 0
  /\ enCalls = <<>>
  /\ enResult = NoEntryResult
  /\ enAttempt = 1
  /\ enRow = "running"

EntryInit ==
  OrchParked /\ HcIdle /\ NavIdle /\ ScoreIdle /\ ScanIdle /\ RocketIdle /\ EnInit
  /\ CleanupIdle /\ TypeIdle /\ MouseIdle /\ GridIdle

\* run() checks its parameters and returns early, or throws into its catch
EnReject ==
  /\ enPc = "validate"
  /\ Rejection(enJourney, enParams) # "none"
  /\ enResult' = Rejected(enJourney, enParams)
  /\ enPc' = IF ChecksInsideTry(enJourney) THEN "finally" ELSE "loop"
  /\ UNCHANGED <<orchVars, hcVars, navVars, smVars, scanVars, rocketVars, cuVars, typeVars, mouseVars, gridVars,
                 enJourney, enParams, enSession, enCalls, enAttempt, enRow>>

\* the parameters pass: session = await setupBrowserSession(params, log)
EnSetupOk ==
  /\ enPc = "validate"
  /\ Rejection(enJourney, enParams) = "none"
  /\ enSession' = 1
  /\ enCalls' = Append(enCalls, "setupBrowserSession")
  /\ enPc' = "body"
  /\ UNCHANGED <<orchVars, hcVars, navVars, smVars, scanVars, rocketVars, cuVars, typeVars, mouseVars, gridVars,
                 enJourney, enParams, enResult, enAttempt, enRow>>

\* setupBrowserSession throws: session stays undefined
EnSetupThrows ==
  /\ enPc = "validate"
  /\ Rejection(enJourney, enParams) = "none"
  /\ enCalls' = Append(enCalls, "setupBrowserSession")
  /\ enResult' = [keys |-> CaughtKeys, success |-> FALSE, captcha |-> FALSE,
                  error |-> "error"]
  /\ enPc' = "finally"
  /\ UNCHANGED <<orchVars, hcVars, navVars, smVars, scanVars, rocketVars, cuVars, typeVars, mouseVars, gridVars,
                 enJourney, enParams, enSession, enAttempt, enRow>>

\* the journey ran to one of its return statements
EnReturns ==
  /\ enPc = "body"
  /\ enResult' = [keys |-> ReturnedKeys, success |-> TRUE, captcha |-> FALSE,
                  error |-> "none"]
  /\ enPc' = "finally"
  /\ UNCHANGED <<orchVars, hcVars, navVars, smVars, scanVars, rocketVars, cuVars, typeVars, mouseVars, gridVars,
                 enJourney, enParams, enSession, enCalls, enAttempt, enRow>>

\* organic run(): { success: false, found: false, captcha: true, steps, error, duration_ms }
EnCaptchaReturn ==
  /\ enPc = "body"
  /\ enJourney = "organic"
  /\ enResult' = [keys |-> CaughtKeys \cup {"captcha"}, success |-> FALSE,
                  captcha |-> TRUE, error |-> CaptchaResult.error]
  /\ enPc' = "finally"
  /\ UNCHANGED <<orchVars, hcVars, navVars, smVars, scanVars, rocketVars, cuVars, typeVars, mouseVars, gridVars,
                 enJourney, enParams, enSession, enCalls, enAttempt, enRow>>

\* an await of the journey rejects: the catch block builds the result
EnThrows ==
  /\ enPc = "body"
  /\ enResult' = [keys |-> CaughtKeys, success |-> FALSE, captcha |-> FALSE,
                  error |-> "error"]
  /\ enPc' = "finally"
  /\ UNCHANGED <<orchVars, hcVars, navVars, smVars, scanVars, rocketVars, cuVars, typeVars, mouseVars, gridVars,
                 enJourney, enParams, enSession, enCalls, enAttempt, enRow>>

\* finally { if (session) await cleanup(..) }; run() returns and the retry
\* loop of processJob reads result.captcha
EnFinally ==
  /\ enPc = "finally"
  /\ enCalls' = IF enSession # 0 THEN Append(enCalls, "cleanup") ELSE enCalls
  /\ enSession' = 0
  /\ enPc' = "loop"
  /\ UNCHANGED <<orchVars, hcVars, navVars, smVars, scanVars, rocketVars, cuVars, typeVars, mouseVars, gridVars,
                 enJourney, enParams, enResult, enAttempt, enRow>>

\* if (!result.captcha) break; otherwise the next attempt calls run() again
EnLoop ==
  /\ enPc = "loop"
  /\ enPc' = IF LoopAfterRun(enResult, enAttempt).pc = "setup" THEN "validate" ELSE "save"
  /\ enAttempt' = LoopAfterRun(enResult, enAttempt).attempt
  /\ UNCHANGED <<orchVars, hcVars, navVars, smVars, scanVars, rocketVars, cuVars, typeVars, mouseVars, gridVars,
                 enJourney, enParams, enSession, enCalls, enResult, enRow>>

\* the result update of processJob, applied
EnSave ==
  /\ enPc = "save"
  /\ enRow' = StatusOf(enResult)
  /\ enPc' = "logs"
  /\ UNCHANGED <<orchVars, hcVars, navVars, smVars, scanVars, rocketVars, cuVars, typeVars, mouseVars, gridVars,
                 enJourney, enParams, enSession, enCalls, enResult, enAttempt>>

\* for (let i = 0; i < result.steps.length; i++): reading length of
\* undefined throws a TypeError and processJob rejects
EnLogs ==
  /\ enPc = "logs"
  /\ enPc' = IF "steps" \in enResult.keys THEN "done" ELSE "crashed"
  /\ UNCHANGED <<orchVars, hcVars, navVars, smVars, scanVars, rocketVars, cuVars, typeVars, mouseVars, gridVars,
                 enJourney, enParams, enSession, enCalls, enResult, enAttempt, enRow>>

EntryNext ==
  \/ EnReject
  \/ EnSetupOk
  \/ EnSetupThrows
  \/ EnReturns
  \/ EnCaptchaReturn
  \/ EnThrows
  \/ EnFinally
  \/ EnLoop
  \/ EnSave
  \/ EnLogs

EntrySpec == EntryInit /\ [][EntryNext]_vars

\* ================================================== cleanup (shared)
\* One call of cleanup(browser, glApi, profileId), with the call of
\* deleteGoLoginProfile it makes. An awaited call settles "ok" or "rejects".
Settlements == {"ok", "rejects"}

CleanupArgs == [browser : BOOLEAN, glApi : BOOLEAN, profileId : 0..2]

\* finally { if (session) await cleanup(..) } in squidoosh, organic, tiered,
\* thanos-local and birthday ("plain"); await cleanup(..).catch(() => {}) in
\* squidoosh-local and super-rocket ("catch")
Callers == {"plain", "catch"}

CuInit ==
  /\ cuPc = "close"
  /\ cuArgs \in CleanupArgs
  /\ cuCalls = <<>>
  /\ cuCaller \in Callers

CleanupInit ==
  OrchParked /\ HcIdle /\ NavIdle /\ ScoreIdle /\ ScanIdle /\ RocketIdle /\ EntryIdle
  /\ CuInit /\ TypeIdle /\ MouseIdle /\ GridIdle

\* a plausible defect: the call is awaited without .catch(() => {})
AfterCallUncaught(o, nxt) == IF o = "rejects" THEN "threw" ELSE nxt

\* where cleanup goes on when an awaited call settled: .catch(() => {})
\* turns a rejection into a fulfilled promise
AfterCall(o, nxt) == nxt

\* if (browser) await browser.close().catch(() => {});
CuClose ==
  /\ cuPc = "close"
  /\ IF cuArgs.browser
     THEN \E o \in Settlements :
            /\ cuCalls' = Append(cuCalls, [call |-> "browser.close", settled |-> o])
            /\ cuPc' = AfterCall(o, "stop")
     ELSE cuCalls' = cuCalls /\ cuPc' = "stop"
  /\ UNCHANGED <<orchVars, hcVars, navVars, smVars, scanVars, rocketVars, entryVars, typeVars, mouseVars,
                 gridVars, cuArgs, cuCaller>>

\* if (glApi) await glApi.stop().catch(() => {});
CuStop ==
  /\ cuPc = "stop"
  /\ IF cuArgs.glApi
     THEN \E o \in Settlements :
            /\ cuCalls' = Append(cuCalls, [call |-> "glApi.stop", settled |-> o])
            /\ cuPc' = AfterCall(o, "delete")
     ELSE cuCalls' = cuCalls /\ cuPc' = "delete"
  /\ UNCHANGED <<orchVars, hcVars, navVars, smVars, scanVars, rocketVars, entryVars, typeVars, mouseVars,
                 gridVars, cuArgs, cuCaller>>

\* if (profileId) { await deleteGoLoginProfile(profileId); console.log(..) }
\* deleteGoLoginProfile: try { await axios.delete(..) } catch { /* ok */ }
CuDelete ==
  /\ cuPc = "delete"
  /\ IF cuArgs.profileId # 0
     THEN \E o \in Settlements :
            cuCalls' = Append(cuCalls, [call |-> "axios.delete", settled |-> o])
     ELSE cuCalls' = cuCalls
  /\ cuPc' = "returned"
  /\ UNCHANGED <<orchVars, hcVars, navVars, smVars, scanVars, rocketVars, entryVars, typeVars, mouseVars,
                 gridVars, cuArgs, cuCaller>>

\* the await of the finally block settles: run() returns its result, or
\* rejects with what cleanup threw when nothing catches it
CuFinallyDone ==
  /\ cuPc \in {"returned", "threw"}
  /\ cuPc' = IF cuPc = "returned" \/ cuCaller = "catch" THEN "runReturned"
             ELSE "runRejected"
  /\ UNCHANGED <<orchVars, hcVars, navVars, smVars, scanVars, rocketVars, entryVars,
                 typeVars, mouseVars, gridVars, cuArgs, cuCalls, cuCaller>>

CleanupNext ==
  \/ CuClose
  \/ CuStop
  \/ CuDelete
  \/ CuFinallyDone

CleanupSpec == CleanupInit /\ [][CleanupNext]_vars

\* ================================================= humanType (shared)
\* One call of humanType(page, text, log): the keys it sends to
\* page.keyboard, and the input they arrive in. The random draws are
\* nondeterministic choices; the waits between the keys are left out.
Letters == {"a", "B"}
KeywordChars == Letters \cup {" "}

\* the copies of the shared library: "current" picks a neighbour of the key
\* on the keyboard, "older" the character one code point up or down
TypeLibs == {"current", "older"}

\* const adjacent = { .., a: "qwsz", .., b: "ghvn", .. }; adjacent[c.toLowerCase()] || ""
adjacent(c) ==
  CASE LowerChar(c) = "a" -> {"q", "w", "s", "z"}
    [] LowerChar(c) = "b" -> {"g", "h", "v", "n"}
    [] OTHER -> {}

\* String.fromCharCode(c.charCodeAt(0) + (Math.random() > 0.5 ? 1 : -1));
\* "US" is the control character U+001F before the blank, "Backquote" the
\* character U+0060 before the letter a
codeNeighbours(c) ==
  CASE c = "a" -> {"Backquote", "b"}
    [] c = "B" -> {"A", "C"}
    [] c = " " -> {"US", "!"}
    [] OTHER -> {}

\* the keys a typo may send before character i (counted from 0):
\*   current: Math.random() < 0.04 && i > 2 && c.match(/[a-z]/i), neighbors.length > 0
\*   older:   Math.random() < 0.05 && i > 2
WrongKeys(lib, i, c) ==
  IF i <= 2 THEN {}
  ELSE IF lib = "current" THEN (IF c \in Letters THEN adjacent(c) ELSE {})
  ELSE codeNeighbours(c)

\* a plausible defect: the wrong key is typed and never taken back
TypoUncorrected(w) == <<w>>

\* keyboard.type(wrongKey, ..); waitForTimeout; keyboard.press("Backspace")
Typo(w) == <<w, "Backspace">>

\* what a key does to the input: Backspace removes the last character, any
\* other key adds its character
Press(field, key) ==
  IF key = "Backspace"
  THEN (IF field = <<>> THEN field ELSE SubSeq(field, 1, Len(field) - 1))
  ELSE Append(field, key)

RECURSIVE PressAll(_, _)
PressAll(field, keys) ==
  IF keys = <<>> THEN field ELSE PressAll(Press(field, Head(keys)), Tail(keys))

TyInit ==
  /\ tyPc = "typing"
  /\ tyLib \in TypeLibs
  /\ tyText \in SeqsUpTo(KeywordChars, MaxText)
  /\ tyIdx = 0
  /\ tyKeys = <<>>
  /\ tyField = <<>>

HumanTypeInit ==
  OrchParked /\ HcIdle /\ NavIdle /\ ScoreIdle /\ ScanIdle /\ RocketIdle /\ EntryIdle
  /\ CleanupIdle /\ TyInit /\ MouseIdle /\ GridIdle

\* one iteration of for (let i = 0; i < text.length; i++): the typo, when
\* one is drawn, then keyboard.type(c, ..)
TypeChar ==
  /\ tyPc = "typing"
  /\ tyIdx < Len(tyText)
  /\ LET c == tyText[tyIdx + 1]
     IN \E sent \in {<<>>} \cup {Typo(w) : w \in WrongKeys(tyLib, tyIdx, c)} :
          /\ tyKeys' = tyKeys \o sent \o <<c>>
          /\ tyField' = PressAll(tyField, sent \o <<c>>)
  /\ tyIdx' = tyIdx + 1
  /\ UNCHANGED <<orchVars, hcVars, navVars, smVars, scanVars, rocketVars, entryVars,
                 cuVars, mouseVars, gridVars, tyPc, tyLib, tyText>>

\* the loop ends: log("keyword_typed", text)
TypeDone ==
  /\ tyPc = "typing"
  /\ tyIdx = Len(tyText)
  /\ tyPc' = "typed"
  /\ UNCHANGED <<orchVars, hcVars, navVars, smVars, scanVars, rocketVars, entryVars,
                 cuVars, mouseVars, gridVars, tyLib, tyText, tyIdx, tyKeys, tyField>>

HumanTypeNext ==
  \/ TypeChar
  \/ TypeDone

HumanTypeSpec == HumanTypeInit /\ [][HumanTypeNext]_vars

\* ============================================ humanMouseMove (shared)
\* One call of humanMouseMove(page, targetX, targetY): the pointer positions
\* it sends and the waits between them. Coordinates are whole pixels.

\* rand(min, max) == Math.floor(Math.random() * (max - min) + min): the
\* values min .. max - 1
rand(min, max) == min..(max - 1)

\* (Math.random() - 0.5) * 40 and (Math.random() - 0.5) * 30 lie in
\* [-20, 20) and [-15, 15); the ends and the middle of the ranges
Wobbles == {[x |-> -20, y |-> -15], [x |-> 0, y |-> 0], [x |-> 19, y |-> 14]}

\* Math.round(n / d) for d > 0: the nearest whole number, halves upwards
RoundDiv(n, d) == (2 * n + d) \div (2 * d)

\* a plausible defect: the wobble is added in full at every step
Undamped(w, i, n) == w * n

\* wobble * (1 - progress) with progress = i / steps, times steps
Damped(w, i, n) == w * (n - i)

\* Math.round(start + (target - start) * progress + wobble * (1 - progress))
Waypoint(start, tgt, w, i, n) ==
  RoundDiv(start * n + (tgt - start) * i + Damped(w, i, n), n)

\* const startX = rand(100, box.w - 100), startY = rand(100, box.h - 100);
\* the callers pass whole-pixel targets
MouseArgs ==
  [sx : {100, 1179}, sy : {100, 619}, tx : {300, 699}, ty : {200}]

MmInit ==
  /\ mmPc = "loop"
  /\ mmArgs \in MouseArgs
  /\ mmSteps \in rand(3, 6)
  /\ mmI = 0
  /\ mmEvents = <<>>

HumanMouseMoveInit ==
  OrchParked /\ HcIdle /\ NavIdle /\ ScoreIdle /\ ScanIdle /\ RocketIdle /\ EntryIdle
  /\ CleanupIdle /\ TypeIdle /\ MmInit /\ GridIdle

\* one iteration of for (let i = 0; i <= steps; i++):
\* page.mouse.move(x, y), page.waitForTimeout(rand(15, 60))
MoveStep ==
  /\ mmPc = "loop"
  /\ mmI <= mmSteps
  /\ \E w \in Wobbles :
       mmEvents' = mmEvents \o
         << [kind |-> "move", i |-> mmI,
             x |-> Waypoint(mmArgs.sx, mmArgs.tx, w.x, mmI, mmSteps),
             y |-> Waypoint(mmArgs.sy, mmArgs.ty, w.y, mmI, mmSteps)],
            [kind |-> "wait", i |-> mmI, x |-> 0, y |-> 0] >>
  /\ mmI' = mmI + 1
  /\ UNCHANGED <<orchVars, hcVars, navVars, smVars, scanVars, rocketVars, entryVars,
                 cuVars, typeVars, gridVars, mmPc, mmArgs, mmSteps>>

\* after the loop: page.mouse.move(targetX, targetY)
FinalMove ==
  /\ mmPc = "loop"
  /\ mmI > mmSteps
  /\ mmEvents' = Append(mmEvents, [kind |-> "move", i |-> mmI, x |-> mmArgs.tx,
                                    y |-> mmArgs.ty])
  /\ mmPc' = "returned"
  /\ UNCHANGED <<orchVars, hcVars, navVars, smVars, scanVars, rocketVars, entryVars,
                 cuVars, typeVars, gridVars, mmArgs, mmSteps, mmI>>

HumanMouseMoveNext ==
  \/ MoveStep
  \/ FinalMove

HumanMouseMoveSpec == HumanMouseMoveInit /\ [][HumanMouseMoveNext]_vars

\* ============================== generateGrid (squidoosh-local journey)
\* One call of generateGrid(centerLat, centerLng, gridSize, spacingMiles)
\* and the choice of a grid point in run(). dRow and dCol are the numbers of
\* spacings the point lies from the centre in latitude and longitude.

\* const half = Math.floor(gridSize / 2)
half(gridSize) == gridSize \div 2

GdInit ==
  /\ gdPc = "loop"
  /\ gdSize \in 1..MaxGrid
  /\ gdRow = -half(gdSize)
  /\ gdCol = -half(gdSize)
  /\ gdPoints = <<>>
  /\ gdPoint = NoPoint

GenerateGridInit ==
  OrchParked /\ HcIdle /\ NavIdle /\ ScoreIdle /\ ScanIdle /\ RocketIdle /\ EntryIdle
  /\ CleanupIdle /\ TypeIdle /\ MouseIdle /\ GdInit

\* for (let row = -half; row <= half; row++)
\*   for (let col = -half; col <= half; col++)
\*     points.push({ lat, lng, row: row + half, col: col + half })
PushPoint ==
  /\ gdPc = "loop"
  /\ gdRow <= half(gdSize)
  /\ gdPoints' = Append(gdPoints, [row |-> gdRow + half(gdSize), col |-> gdCol + half(gdSize),
                                   dRow |-> gdRow, dCol |-> gdCol])
  /\ IF gdCol + 1 <= half(gdSize)
     THEN gdCol' = gdCol + 1 /\ gdRow' = gdRow
     ELSE gdCol' = -half(gdSize) /\ gdRow' = gdRow + 1
  /\ UNCHANGED <<orchVars, hcVars, navVars, smVars, scanVars, rocketVars, entryVars,
                 cuVars, typeVars, mouseVars, gdPc, gdSize, gdPoint>>

\* return points
GridReturn ==
  /\ gdPc = "loop"
  /\ gdRow > half(gdSize)
  /\ gdPc' = "returned"
  /\ UNCHANGED <<orchVars, hcVars, navVars, smVars, scanVars, rocketVars, entryVars,
                 cuVars, typeVars, mouseVars, gdSize, gdRow, gdCol, gdPoints, gdPoint>>

\* run(): const gridPoint = grid[Math.floor(Math.random() * grid.length)]
SelectPoint ==
  /\ gdPc = "returned"
  /\ \E k \in DOMAIN gdPoints : gdPoint' = gdPoints[k]
  /\ gdPc' = "selected"
  /\ UNCHANGED <<orchVars, hcVars, navVars, smVars, scanVars, rocketVars, entryVars,
                 cuVars, typeVars, mouseVars, gdSize, gdRow, gdCol, gdPoints>>

GenerateGridNext ==
  \/ PushPoint
  \/ GridReturn
  \/ SelectPoint

GenerateGridSpec == GenerateGridInit /\ [][GenerateGridNext]_vars

\* ================================================================ claims
InJourney == {"setup", "search", "scan", "cleanup", "hung"}
AfterLoop == {"save", "logs"}
Settled == {"done", "crashed"}
ProfileIds == {<<e, i>> \in ExecIds \X (1..MAX_ATTEMPTS) : i <= Len(profiles[e])}
Profile(id) == profiles[id[1]][id[2]]
CaptchaErrors ==
  {"CAPTCHA on Google landing page - blocked", "CAPTCHA after search - blocked",
   "CAPTCHA during pagination"}

\* C1: for every profile created by setupBrowserSession, cleanup is called
\* exactly once on every exit path of run(): never twice, and once run() has
\* returned for the attempt that created the profile, exactly once - also when
\* setupBrowserSession throws after the profile was created.
TeardownExactlyOnce ==
  \A id \in ProfileIds :
    /\ Profile(id).teardowns <= 1
    /\ (attempt[id[1]] > Profile(id).attempt \/ pc[id[1]] \in AfterLoop \cup Settled)
         => Profile(id).teardowns = 1

\* C2: every execution of processJob sends the status running exactly once,
\* then completed or failed exactly once, and no other status write; an
\* execution that has settled (resolved or rejected) has sent both.
StatusWrittenOnceEach ==
  \A e \in ExecIds :
    /\ writes[e] \in {<<>>, <<"running">>, <<"running", "completed">>, <<"running", "failed">>}
    /\ pc[e] \in Settled => Len(writes[e]) = 2

\* C3: the retry loop runs the journey at most MAX_ATTEMPTS times; an attempt
\* after the first is running only if the attempt before it returned the
\* captcha flag; after the loop, the last result has the flag only if all
\* MAX_ATTEMPTS attempts were run.
RetryLoopStopsAtFirstUnflagged ==
  \A e \in ExecIds :
    /\ pc[e] \in InJourney => attempt[e] \in 1..MAX_ATTEMPTS
    /\ (pc[e] \in {"setup", "search", "scan", "hung"} /\ attempt[e] > 1) => result[e].captcha
    /\ pc[e] \in AfterLoop =>
         IF result[e].captcha THEN attempt[e] = MAX_ATTEMPTS + 1
         ELSE attempt[e] \in 1..MAX_ATTEMPTS

\* the retry loop has run all five attempts
FiveAttemptsRun ==
  \E e \in ExecIds : pc[e] = "save" /\ attempt[e] = MAX_ATTEMPTS + 1 /\ result[e].captcha

\* C4: a failure reported by handleCaptcha at any checkpoint (landing page,
\* after the search, before pagination) reaches processJob as a result with
\* the captcha flag, and the retry loop ends with such a result only when all
\* MAX_ATTEMPTS attempts have been used.
CaptchaFailureIsRetried ==
  \A e \in ExecIds :
    (pc[e] \in {"cleanup"} \cup AfterLoop /\ result[e].error \in CaptchaErrors) =>
      /\ result[e].captcha
      /\ pc[e] \in AfterLoop => attempt[e] = MAX_ATTEMPTS + 1

\* C5: no profile id is used by two attempts of the retry loop: every profile
\* was used by one attempt only, and the session of a running attempt is a
\* profile that this attempt created.
FreshSessionPerAttempt ==
  /\ \A id \in ProfileIds : Cardinality(Profile(id).usedBy) <= 1
  /\ \A e \in ExecIds :
       session[e] # 0 => profiles[e][session[e]].attempt = attempt[e]

\* a later attempt of the retry loop holds a session
RetrySessionAcquired ==
  \E e \in ExecIds : attempt[e] >= 2 /\ session[e] # 0 /\ Len(profiles[e]) >= 2

\* C6: at no time do two live sessions (profiles created and not torn down)
\* exist for the same job.
LiveProfilesOf(j) ==
  {id \in ProfileIds : execJob[id[1]] = j /\ Profile(id).teardowns = 0}
OneLiveSessionPerJob ==
  \A j \in JobIds : Cardinality(LiveProfilesOf(j)) <= 1

\* C7: the number of jobs being processed never exceeds MAX_CONCURRENT.
ActiveJobsWithinLimit ==
  activeJobs <= MAX_CONCURRENT

\* C8: the execution of a job is bounded by a deadline: a started execution
\* settles, or the job is recorded as failed with a timeout error.
TimedOut(e) ==
  /\ execJob[e] \in JobIds
  /\ jobStatus[execJob[e]] = "failed"
  /\ jobError[execJob[e]] = "timeout"
DeadlineEnforced ==
  \A e \in ExecIds :
    [](pc[e] = "setRunning" => <>(pc[e] \in Settled \/ TimedOut(e)))

\* C9: no job remains in running: a job whose status is running has an
\* execution of processJob that has not settled and will write its result.
NoOrphanRunning ==
  \A j \in JobIds :
    jobStatus[j] = "running" => \E e \in ExecIds : execJob[e] = j /\ pc[e] \notin Settled

\* C10: the slot of every started execution is released exactly once, when it
\* settles, resolved or rejected: activeJobs counts the executions that have
\* started and not settled.
Unsettled == {e \in ExecIds : pc[e] \notin {"idle"} \cup Settled}
SlotReleasedExactlyOnce ==
  activeJobs = Cardinality(Unsettled)

\* processJob has rejected, the slot is free again and a poll cycle can
\* fetch a queued job
PollSurvivesCrash ==
  \E e \in ExecIds :
    /\ pc[e] = "crashed"
    /\ activeJobs < MAX_CONCURRENT
    /\ pollsStarted < MaxPolls
    /\ QueuedJobs # {}

\* C11: once the status of a job is completed or failed, the worker never
\* changes it again, in particular never back to running.
IsTerminal(st) == st \in {"completed", "failed"}
TerminalStatusIsFinal ==
  [][\A j \in JobIds : IsTerminal(jobStatus[j]) => jobStatus'[j] = jobStatus[j]]_vars

\* C12: a poll cycle starts queued jobs by descending priority: when a job
\* is started, every queued job of a higher priority is started with it or
\* was started before.
StartedNow(j) == \E e \in ExecIds : execJob[e] # j /\ execJob'[e] = j
HigherPriorityStartsFirst ==
  [][\A j \in JobIds : StartedNow(j) =>
       \A k \in QueuedJobs : params[k].priority > params[j].priority => StartedNow(k)]_vars

LastLog == IF hcLog = <<>> THEN "none" ELSE hcLog[Len(hcLog)]
LogCount(x) == Cardinality({i \in DOMAIN hcLog : hcLog[i] = x})
SubmittedIn(a) == \E i \in DOMAIN submissions : submissions[i].attempt = a

\* C14: when no site key can be extracted from a challenge page, handleCaptcha
\* returns false in that cycle: that cycle makes no call of the solving
\* service, no further cycle runs, and no call of the solving service is ever
\* made without a site key.
NoSiteKeyEndsCall ==
  /\ (captchaInfo # NoInfo /\ ~captchaInfo.siteKey) =>
       /\ hcPc = "returned"
       /\ hcResult = "false"
       /\ LastLog = "ip_blocked"
       /\ ~SubmittedIn(hcAttempt)
  /\ \A i \in DOMAIN hcLog : hcLog[i] = "ip_blocked" => i = Len(hcLog)
  /\ \A i \in DOMAIN submissions : submissions[i].siteKey

\* a retry cycle, after a cycle that called the solving service, finds the
\* widget without a site key
IpBlockedOnRetry ==
  /\ hcPc = "returned"
  /\ LastLog = "ip_blocked"
  /\ hcAttempt = 2
  /\ Len(submissions) = 1

\* C15: one call of handleCaptcha runs at most maxAttempts cycles and calls the
\* solving service at most maxAttempts times; every cycle that ends in an
\* error or stale is followed by the next cycle or by the final return false;
\* the call returns true or false, and it always returns.
CyclesEnded == LogCount("captcha_error") + LogCount("captcha_stale")
HcBounded ==
  /\ LogCount("captcha_detected") <= maxAttempts
  /\ Len(submissions) <= maxAttempts
  /\ \A a \in 1..maxAttempts :
       Cardinality({i \in DOMAIN submissions : submissions[i].attempt = a}) <= 1
  /\ hcPc \in {"called", "reload", "extract", "solving", "polling", "inject", "returned"}
  /\ IF hcPc = "returned" THEN hcResult \in {"true", "false"} ELSE hcResult = "none"
  /\ IF LastLog = "captcha_failed"
     THEN CyclesEnded = maxAttempts /\ hcPc = "returned" /\ hcResult = "false"
     ELSE hcPc # "called" /\ LogCount("captcha_detected") > 0
            => CyclesEnded = LogCount("captcha_detected") - 1
RetrySubmitsReloadedPage ==
  \A i \in DOMAIN submissions :
    submissions[i].attempt > 1 => submissions[i].paramsFrom = submissions[i].attempt

\* C17: after the task is created solveRecaptcha polls at most SOLVE_POLLS
\* times; every answer before the last is pending; a ready answer ends the
\* call with the token, an error answer with a throw, SOLVE_POLLS pending
\* answers with the timeout throw, and nothing else does.
AllPending(n) == \A i \in 1..n : responses[i] = "pending"
LastAnswer == IF responses = <<>> THEN "none" ELSE responses[Len(responses)]
SolvePollingBounded ==
  /\ Len(responses) <= SOLVE_POLLS
  /\ AllPending(Len(responses) - 1)
  /\ solveEnd = "token" <=> LastAnswer = "ready"
  /\ solveEnd = "error" <=> LastAnswer = "error"
  /\ solveEnd = "timeout" <=> (Len(responses) = SOLVE_POLLS /\ LastAnswer = "pending")
  /\ hcPc = "polling" <=> solveEnd = "polling"
  /\ hcPc = "inject" => solveEnd = "token"

\* all polls of a task were answered pending
SolveTimedOut ==
  solveEnd = "timeout" /\ Len(responses) = SOLVE_POLLS

\* -------------------------------------------------- claims on run()
\* C18: handleCaptcha runs immediately before and immediately after every
\* load of a results page (the search submission, each pagination step): the
\* step before the load is a call of handleCaptcha, and so is the step after
\* it; run() does not go on to scan the page, or return, without that call.
IsResultPageLoad(ev) == ev \in {"search_submitted", "page_navigated"}
CaptchaCheckAroundTransitions ==
  \A i \in DOMAIN trail :
    IsResultPageLoad(trail[i]) =>
      /\ i > 1 /\ trail[i - 1] = "handleCaptcha"
      /\ i < Len(trail) => trail[i + 1] = "handleCaptcha"
      /\ i = Len(trail) => navPc \notin {"scan", "returned"}

\* ------------------------------------------------ claims on scoreMatch
\* C19: the score is the sum of: 100 if the case-folded text contains the
\* full target name; 90 if the host of the link (scheme and www. stripped)
\* contains the target domain; 80 if the text contains the target domain; and
\* the word-overlap bonus.
TargetDomain == hostOf(toLowerCase(targetUrl))
LinkHost == hostOf(toLowerCase(href))
ClaimedScore ==
  (IF includes(toLowerCase(text), toLowerCase(targetBusiness)) THEN 100 ELSE 0)
  + (IF TargetDomain # <<>> /\ includes(LinkHost, TargetDomain) THEN 90 ELSE 0)
  + (IF TargetDomain # <<>> /\ includes(toLowerCase(text), TargetDomain) THEN 80 ELSE 0)
  + wordBonus(toLowerCase(text),
              SelectSeq(splitWords(toLowerCase(targetBusiness)), LongerThanOne))
ScoreIsSumOfBonuses ==
  score # -1 => score = ClaimedScore

\* C20: the score is at least 100 whenever the text contains the full target
\* name, letters compared without regard to case.
SameLetter(a, b) == LowerChar(a) = LowerChar(b)
ContainsIgnoringCase(str, sub) ==
  \E k \in 0..(Len(str) - Len(sub)) : \A i \in 1..Len(sub) : SameLetter(str[k + i], sub[i])
FullNameScoresHundred ==
  (score # -1 /\ ContainsIgnoringCase(text, targetBusiness)) => score >= 100

\* scoreMatch was called with a text that has the target name in another case
NameFoundInOtherCase ==
  /\ score # -1
  /\ targetBusiness # <<>>
  /\ ContainsIgnoringCase(text, targetBusiness)
  /\ ~includes(text, targetBusiness)

\* C21: with ratio = (target-name words longer than one character found in
\* the text) / (number of such words), the word-overlap part of the score is
\* 70 when ratio >= 0.75, 40 when 0.5 <= ratio < 0.75, and 0 when ratio < 0.5
\* or the target has no such word; both boundaries are inclusive.
NameWords == SelectSeq(splitWords(toLowerCase(targetBusiness)), LongerThanOne)
WordsInText ==
  Cardinality({i \in DOMAIN NameWords : ContainsIgnoringCase(text, NameWords[i])})
ClaimedWordBonus ==
  IF Len(NameWords) = 0 THEN 0
  ELSE IF 100 * WordsInText >= 75 * Len(NameWords) THEN 70
  ELSE IF 100 * WordsInText >= 50 * Len(NameWords) THEN 40
  ELSE 0
OtherBonuses ==
  (IF includes(toLowerCase(text), toLowerCase(targetBusiness)) THEN 100 ELSE 0)
  + (IF TargetDomain # <<>> /\ includes(toLowerCase(href), TargetDomain) THEN 90 ELSE 0)
  + (IF TargetDomain # <<>> /\ includes(toLowerCase(text), TargetDomain) THEN 80 ELSE 0)
WordBonusByRatio ==
  score # -1 => score - OtherBonuses = ClaimedWordBonus

\* scoreMatch was called with exactly three of four name words in the text
RatioOnUpperBoundary ==
  /\ score # -1
  /\ Len(NameWords) = 4
  /\ WordsInText = 3

\* C22: in every scan strategy of both journeys a link that was scored is
\* clicked if and only if it is the first scored link whose score is at least
\* 50; a link with a lower score is never clicked.
SelectedIffFirstAtThreshold ==
  \A k \in DOMAIN scanned :
    scanned[k].clicked <=>
      (scanned[k].score >= 50 /\ \A m \in 1..(k - 1) : scanned[m].score < 50)

\* scanOrganicResults passed over a link below the threshold and clicked the
\* next one, a link to the target's domain
LowScorePassedOver ==
  /\ scanJourney = "organic"
  /\ \E k \in DOMAIN scanned :
       /\ k > 1
       /\ scanned[k - 1].score = 40
       /\ scanned[k].clicked
       /\ domainMatch(results[scanned[k].pos])

\* C23: with the ordered lists of the page fixed, the squidoosh journey
\* clicks the first link that meets the threshold, the local pack before the
\* organic headings before the broad scan and each list in page order: an
\* organic link only if no local-pack link matches, a broad-scan link only if
\* neither matches, and at most one link per attempt.
Qualifies(p, i) ==
  ~SkippedUnscored(p, ListOf(p)[i]) /\ ScoreOf(ListOf(p)[i]) >= 50
FirstMatch(p) ==
  IF \E i \in DOMAIN ListOf(p) : Qualifies(p, i)
  THEN CHOOSE i \in DOMAIN ListOf(p) :
         Qualifies(p, i) /\ \A j \in 1..(i - 1) : ~Qualifies(p, j)
  ELSE 0
ExpectedPick ==
  IF FirstMatch("maps") > 0 THEN [tag |-> "maps", pos |-> FirstMatch("maps")]
  ELSE IF FirstMatch("h3s") > 0 THEN [tag |-> "h3s", pos |-> FirstMatch("h3s")]
  ELSE IF FirstMatch("allLinks") > 0 THEN [tag |-> "allLinks", pos |-> FirstMatch("allLinks")]
  ELSE [tag |-> "none", pos |-> 0]
Clicks == {k \in DOMAIN scanned : scanned[k].clicked}
FirstMatchInStrategyOrder ==
  scanJourney = "squidoosh" =>
    /\ Cardinality(Clicks) <= 1
    /\ \A k \in Clicks : [tag |-> scanned[k].tag, pos |-> scanned[k].pos] = ExpectedPick
    /\ scanPc = "notFound" => ExpectedPick.tag = "none"
    /\ scanResult.success =>
         /\ scanResult.found <=> ExpectedPick.tag # "none"
         /\ scanResult.found => scanResult.clickedRank = ExpectedPick.pos

\* run() returned after it clicked a broad-scan link, having scored
\* local-pack links and organic links that did not match
BroadScanLinkClicked ==
  /\ scanJourney = "squidoosh"
  /\ scanResult.found
  /\ \E k \in Clicks : scanned[k].tag = "allLinks"
  /\ \E m \in DOMAIN scanned : scanned[m].tag = "maps"
  /\ \E n \in DOMAIN scanned : scanned[n].tag = "h3s"

\* C24: when run() scanned the page without a rejected await and no link
\* met the threshold, it returns success = true, found = false, clickedRank =
\* 0 and no error, and the result update persists the job as completed.
NoMatchRunEnded ==
  /\ scanJourney = "squidoosh"
  /\ scanPc \in {"save", "logs", "crashed"}
  /\ ExpectedPick.tag = "none"
  /\ \A i \in DOMAIN steps : steps[i] # "error"
NoMatchIsCompletedRun ==
  NoMatchRunEnded =>
    /\ scanResult = [success |-> TRUE, found |-> FALSE, clickedRank |-> 0, error |-> "none"]
    /\ rowStatus # "failed"
    /\ rowStatus # "running" => rowStatus = "completed"

\* a run that scored links, clicked none, and whose result update was applied
NoMatchPersisted ==
  /\ NoMatchRunEnded
  /\ scanned # <<>>
  /\ scanPc = "logs"
  /\ rowStatus = "completed"

\* C25: when setupBrowserSession fails (profile creation or launch), the
\* attempt fails and the retry loop starts another attempt; the loop is left
\* after a failed session setup only when the attempt was the fifth.
SessionFailureIsRetried ==
  [][\A e \in ExecIds :
       (pc[e] = "setup" /\ pc'[e] = "save") => attempt[e] = MAX_ATTEMPTS]_vars

\* C25 as amended: when setupBrowserSession fails (profile creation or
\* launch), run() returns an error result without the captcha flag and the
\* retry loop is left after this attempt, whatever its number: no further
\* attempt is started.
SetupFailedNow(e) ==
  /\ pc[e] = "setup"
  /\ result'[e] = ErrorResult("error")
  /\ pc'[e] # pc[e] \/ attempt'[e] # attempt[e]
SessionFailureEndsLoop ==
  [][\A e \in ExecIds :
       SetupFailedNow(e) =>
         /\ pc'[e] = "save"
         /\ attempt'[e] = attempt[e]
         /\ ~result'[e].captcha]_vars

\* the first attempt could not create its profile and the loop was left
SetupFailureSaved ==
  \E e \in ExecIds :
    /\ pc[e] = "save"
    /\ attempt[e] = 1
    /\ profiles[e] = <<>>
    /\ result[e] = ErrorResult("error")

\* C26: within one job the phases are strictly sequential: a humanScroll call
\* is in flight only while run() awaits the race it was started in, every
\* page action it issues is issued then, and none is issued once the
\* teardown of the attempt has started.
PhasesSequential ==
  /\ \A k \in 1..MaxScrolls : InFlight(k) => (rkPc = "race" /\ rkRace = k)
  /\ \A a \in pageLog : a.awaiting /\ a.race = a.scroll /\ ~a.teardown

\* C27: the steps of a run are only appended; log rows are inserted only
\* after the run has returned; and when processJob has finished with the job
\* the sink holds exactly the steps of the persisted result, in order, row i
\* with step_number i (from 0).
ExpectedRows == [i \in 1..Len(steps) |-> [step_number |-> i - 1, action |-> steps[i]]]
SinkHoldsPersistedSteps ==
  /\ sink # <<>> => scanPc \in {"logs", "done", "crashed"}
  /\ (scanPc = "done" /\ rowStatus # "running") => sink = ExpectedRows

\* C28: a poll cycle starts only jobs whose status is queued when its query
\* is answered, and the oldest of them first: when it starts a job, every
\* older queued job is started with it.
StartsOldestQueued ==
  [][\A j \in JobIds :
       StartedNow(j) =>
         /\ jobStatus[j] = "queued"
         /\ \A k \in JobIds : (k < j /\ jobStatus[k] = "queued") => StartedNow(k)]_vars

\* the newer job was started while the older one, no longer queued, was
\* left alone
OlderJobNotQueuedSkipped ==
  \E e \in ExecIds :
    /\ execJob[e] = 2
    /\ pc[e] = "setRunning"
    /\ jobStatus[1] \in {"running", "completed", "failed"}

\* C29: when handleCaptcha returns true, the page it checked last is no
\* challenge page by the signature of its entry check (a URL with "/sorry/"
\* or "captcha" in it).
TrueMeansNoChallenge ==
  hcResult = "true" => ~IsChallengeUrl(hcPage.url)

\* C30: a job is never processed by two executions of processJob at the same
\* time: no two unsettled executions work on the same job.
NoJobProcessedTwiceAtOnce ==
  \A e1, e2 \in Unsettled : e1 # e2 => execJob[e1] # execJob[e2]

\* C31: when all MAX_ATTEMPTS attempts of a job returned a result with the
\* captcha flag, processJob goes on to the result update: the update it sends
\* has status failed, and the row it is applied to holds failed with the
\* error of the last attempt.
ExhaustedNow(e) ==
  /\ pc[e] = "save"
  /\ attempt[e] = MAX_ATTEMPTS + 1
  /\ pc'[e] # "save"
ExhaustedRetryPersisted ==
  [][\A e \in ExecIds :
       ExhaustedNow(e) =>
         /\ result[e] = CaptchaResult
         /\ writes'[e] = Append(writes[e], "failed")
         /\ \/ jobStatus'[execJob[e]] = "failed" /\ jobError'[execJob[e]] = result[e].error
            \/ jobStatus' = jobStatus /\ jobError' = jobError]_vars

\* the fifth flagged attempt was saved: the row holds failed and its error
ExhaustedRetrySaved ==
  \E e \in ExecIds :
    /\ pc[e] = "logs"
    /\ attempt[e] = MAX_ATTEMPTS + 1
    /\ writes[e] = <<"running", "failed">>
    /\ jobStatus[execJob[e]] = "failed"
    /\ jobError[execJob[e]] = CaptchaResult.error

\* C32: every result a journey's run() returns, on every return path
\* (parameter checks included), has a steps array, so the log loop of
\* processJob, which reads result.steps.length, never throws.
EveryResultHasSteps ==
  /\ enPc \in {"finally", "loop", "save", "logs", "done"} => "steps" \in enResult.keys
  /\ enPc # "crashed"

\* C40: a journey that rejects its parameters before the session setup
\* returns a failure result without having called setupBrowserSession and
\* without a cleanup call; the result carries no captcha flag, so the retry
\* loop is left after the first attempt.
ParamsRejected == Rejection(enJourney, enParams) # "none"
RejectionAcquiresNothing ==
  ParamsRejected =>
    /\ enCalls = <<>>
    /\ enSession = 0
    /\ enAttempt = 1
    /\ enPc \in {"validate", "finally", "loop", "save", "logs", "done", "crashed"}
    /\ enPc # "validate" =>
         /\ ~enResult.success
         /\ ~enResult.captcha
         /\ "captcha" \notin enResult.keys
         /\ enResult.error = Rejection(enJourney, enParams)

\* a birthday job without an image was rejected and left the retry loop
\* after its first attempt
RejectedJobLeftLoop ==
  /\ enJourney = "birthday"
  /\ enParams.keyword # "" /\ enParams.image_base64 = ""
  /\ enPc = "save"
  /\ enAttempt = 1
  /\ enCalls = <<>>
  /\ enResult.error = "No image base64"

\* C33: cleanup is best-effort: a rejected browser.close() or glApi.stop()
\* does not keep it from the profile deletion, the deletion is attempted
\* whenever profileId is set, a failed deletion is swallowed, and cleanup
\* never throws into the finally block that awaits it.
Called(c) == \E k \in DOMAIN cuCalls : cuCalls[k].call = c
CallRejected(c) == \E k \in DOMAIN cuCalls : cuCalls[k].call = c /\ cuCalls[k].settled = "rejects"
CleanupIsBestEffort ==
  /\ cuPc \notin {"threw", "runRejected"}
  /\ cuPc \in {"returned", "runReturned"} =>
       /\ Called("axios.delete") <=> cuArgs.profileId # 0
       /\ Called("browser.close") <=> cuArgs.browser
       /\ Called("glApi.stop") <=> cuArgs.glApi
  /\ CallRejected("browser.close") => cuPc \in {"stop", "delete", "returned", "runReturned"}
  /\ CallRejected("glApi.stop") => cuPc \in {"delete", "returned", "runReturned"}
  /\ CallRejected("axios.delete") => cuPc \in {"returned", "runReturned"}

\* close, stop and the deletion all failed, and cleanup returned
EveryTeardownCallFailed ==
  /\ cuPc = "runReturned"
  /\ cuCaller = "plain"
  /\ CallRejected("browser.close")
  /\ CallRejected("glApi.stop")
  /\ CallRejected("axios.delete")

\* C34: the organic journey scans at most maxPages result pages, scans no
\* page after the one with the match, and the pagesScanned of its result is
\* the number of pages it scanned, also when it stopped because no next page
\* could be reached.
ScansIn(a) == Len(SelectSeq(a, LAMBDA ev : ev = "scan"))
PagesScannedIsCount ==
  (runParams.journeyType = "organic" /\ navPc = "returned"
     /\ runResult \in {"found", "not_found"}) =>
    /\ ScansIn(trail) <= maxPagesOf(runParams)
    /\ runResult = "found" => trail[Len(trail)] = "scan"
    /\ pagesScanned = ScansIn(trail)

\* C35: the organic journey never clicks a result that lies inside an ad
\* container or inside the local pack: every such result is passed over
\* without being scored, also when the check on the element rejects.
AdsAndMapsNeverClicked ==
  scanJourney = "organic" =>
    \A k \in DOMAIN scanned : results[scanned[k].pos].kind \notin {"ad", "maps"}

\* C36: humanType leaves exactly the text typed: the keys sent reduce to the
\* characters of the text read so far, a wrong key is always followed at
\* once by one Backspace and then by the intended character, no wrong key is
\* sent before the fourth character, and at the end the input holds the text.
BackspaceAt(k) == tyKeys[k] = "Backspace"
TypedTextIsKeyword ==
  /\ tyField = SubSeq(tyText, 1, tyIdx)
  /\ PressAll(<<>>, tyKeys) = tyField
  /\ \A k \in DOMAIN tyKeys :
       BackspaceAt(k) =>
         /\ k > 3 /\ k < Len(tyKeys)
         /\ ~BackspaceAt(k - 1) /\ ~BackspaceAt(k + 1)
         /\ tyKeys[k - 1] \in WrongKeys(tyLib, k, tyKeys[k + 1])
  /\ \A k \in DOMAIN tyKeys : k <= 3 => tyKeys[k] = tyText[k]
  /\ tyPc = "typed" => tyField = tyText

\* a keyword was typed with two corrected typos
TypedWithTypos ==
  /\ tyPc = "typed"
  /\ tyLib = "current"
  /\ Len(tyText) = MaxText
  /\ Len(tyKeys) = MaxText + 4

\* C37: humanMouseMove does not jump to the target: before its last
\* page.mouse.move it sends between 3 and 6 waypoints, each followed by a
\* wait; a waypoint is off the straight line from the start to the target by
\* at most the wobble range times (1 - progress), up to rounding, so by
\* nothing at progress 1; and the last position sent is (targetX, targetY).
Abs(v) == IF v < 0 THEN -v ELSE v
OnLineTimes(start, tgt, i, n) == start * n + (tgt - start) * i
WithinWobble(v, start, tgt, range, i, n) ==
  2 * Abs(v * n - OnLineTimes(start, tgt, i, n)) <= 2 * range * (n - i) + n
LoopMoves == SelectSeq(mmEvents, LAMBDA ev : ev.kind = "move" /\ ev.i <= mmSteps)
MouseMoveHasWaypoints ==
  /\ \A k \in DOMAIN mmEvents :
       LET ev == mmEvents[k]
       IN (ev.kind = "move" /\ ev.i <= mmSteps) =>
            /\ k < Len(mmEvents) /\ mmEvents[k + 1].kind = "wait"
            /\ WithinWobble(ev.x, mmArgs.sx, mmArgs.tx, 20, ev.i, mmSteps)
            /\ WithinWobble(ev.y, mmArgs.sy, mmArgs.ty, 15, ev.i, mmSteps)
            /\ ev.i = mmSteps => ev.x = mmArgs.tx /\ ev.y = mmArgs.ty
  /\ mmPc = "returned" =>
       /\ Len(LoopMoves) \in 3..6
       /\ Len(LoopMoves) - 1 \in 3..6
       /\ mmEvents[Len(mmEvents)] =
            [kind |-> "move", i |-> mmSteps + 1, x |-> mmArgs.tx, y |-> mmArgs.ty]

\* a call with the most steps returned, its first waypoint off the line by
\* the whole wobble range
MovedWithFullWobble ==
  /\ mmPc = "returned"
  /\ mmSteps = 5
  /\ mmEvents[1].x = mmArgs.sx - 20
  /\ mmEvents[1].y = mmArgs.sy - 15

\* C38: when the target business name is empty, scoreMatch gives the +100
\* full-name bonus to every text, so every candidate meets the threshold
\* and the first candidate a journey scores is the one it clicks, whatever
\* its text and link.
Scored(p) == {i \in DOMAIN ListOf(p) : ~SkippedUnscored(p, ListOf(p)[i])}
FirstScored ==
  IF Scored("maps") # {}
    THEN [tag |-> "maps", pos |-> CHOOSE i \in Scored("maps") : \A j \in Scored("maps") : i <= j]
  ELSE IF Scored("h3s") # {}
    THEN [tag |-> "h3s", pos |-> CHOOSE i \in Scored("h3s") : \A j \in Scored("h3s") : i <= j]
  ELSE IF Scored("allLinks") # {}
    THEN [tag |-> "allLinks",
          pos |-> CHOOSE i \in Scored("allLinks") : \A j \in Scored("allLinks") : i <= j]
  ELSE [tag |-> "none", pos |-> 0]
EmptyNameSelectsFirst ==
  target.targetBusiness = <<>> =>
    /\ scanPc \in {"maps", "collect"} =>
         \A l \in Links : ScoreOf(l) >= 100 /\ Meets(ScoreOf(l))
    /\ Len(scanned) <= 1
    /\ \A k \in DOMAIN scanned : scanned[k].score >= 100 /\ scanned[k].clicked
    /\ (scanJourney = "squidoosh" /\ scanned # <<>>) =>
         [tag |-> scanned[1].tag, pos |-> scanned[1].pos] = FirstScored
    /\ (scanJourney = "squidoosh" /\ scanResult.success) =>
         scanResult.found <=> FirstScored.tag # "none"

\* a link whose text and address have nothing of the target was clicked as
\* the first candidate of the local pack
UnrelatedLinkClicked ==
  /\ target.targetBusiness = <<>>
  /\ scanJourney = "squidoosh"
  /\ scanResult.found
  /\ scanned # <<>>
  /\ scanned[1].tag = "maps"
  /\ scanned[1].score = 100
  /\ lists.mapsPack[1].txt = <<"d", "a", "b">>

\* C39: generateGrid returns exactly gridSize x gridSize points, with row and
\* col in 0..gridSize-1, for every gridSize >= 1, odd or even, so the grid
\* point run() picks is a point of a gridSize x gridSize grid.
InGrid(pt) == pt.row \in 0..(gdSize - 1) /\ pt.col \in 0..(gdSize - 1)
GridIsSizeBySize ==
  /\ gdPc \in {"returned", "selected"} =>
       /\ Len(gdPoints) = gdSize * gdSize
       /\ \A k \in DOMAIN gdPoints : InGrid(gdPoints[k])
  /\ gdPc = "selected" => InGrid(gdPoint)

====
